---- MODULE Spec2Model ----
(***************************************************************************)
(* Retrieval and grounding pipeline of the Multi-Course RAG assistant:     *)
(* course detection and scoping (src/src/retriever.py), the vector store   *)
(* adapter (src/src/vector_store.py), citation extraction and the          *)
(* streaming answer protocol (src/src/llm_chain.py) with its consumer, the *)
(* chat loop of src/app.py.                                                *)
(*                                                                         *)
(* Text is a sequence of characters; a character is a one-letter string.   *)
(***************************************************************************)
EXTENDS Integers, Sequences, FiniteSets, TLC

VARIABLES
    query,              \* detect_course_from_query: the query argument
    available_courses,  \* detect_course_from_query: the course list argument
    detected,           \* detect_course_from_query: its return value, or NotCalled
    store,              \* the Chroma collection: chunks in insertion order
    relevance,          \* relevance score the index gives each chunk id (hundredths)
    op,                 \* the retriever method called last
    course_id,          \* retrieve: the course selector argument
    k,                  \* retrieve: the k argument
    where_filter,       \* similarity_search: the course the index is asked to filter by
    ranked,             \* what the index returned: <<chunk, score>> pairs, best first
    returned,           \* what the retriever method returned
    logged,             \* the errors logger.error recorded during that call
    pc,                 \* where the generator of generate_response_stream stands
    documents,          \* generator local: the retrieved chunks
    sources,            \* generator local: get_source_citations(documents)
    evidence,           \* generator local: content and metadata of each chunk
    events,             \* the events the generator has yielded, in order
    llm_invoked,        \* whether self.chain.stream(...) has been called
    deltas,             \* the text deltas the model has produced, in order
    llm_error,          \* the exception the model raised, if any
    full_response,      \* chat loop local: the text assembled so far
    ui_sources,         \* chat loop local: sources
    ui_evidence,        \* chat loop local: evidence
    messages,           \* st.session_state.messages
    generators,         \* the generators made by generate_response_stream
    applied,            \* the sidebar handler or function that ran last, or "none"
    args,               \* its arguments (and the collection it found)
    result              \* what it returned or reported

detectVars == <<query, available_courses, detected>>

callVars == <<op, course_id, k, where_filter, ranked, returned, logged>>

streamVars == <<pc, documents, sources, evidence, events, llm_invoked, deltas,
                llm_error, full_response, ui_sources, ui_evidence, messages, generators>>

applyVars == <<applied, args, result>>

vars == <<query, available_courses, detected, store, relevance,
          op, course_id, k, where_filter, ranked, returned, logged,
          pc, documents, sources, evidence, events, llm_invoked, deltas,
          llm_error, full_response, ui_sources, ui_evidence, messages,
          generators, applied, args, result>>

----------------------------------------------------------------------------
(* Characters and the str methods the code uses                            *)

Space == " "
Dash == "-"
Underscore == "_"

LowerSeq == <<"a", "b", "c", "i", "m", "o", "s", "t", "u", "x", "y">>
UpperSeq == <<"A", "B", "C", "I", "M", "O", "S", "T", "U", "X", "Y">>

LowerLetters == {LowerSeq[i] : i \in 1..Len(LowerSeq)}
UpperLetters == {UpperSeq[i] : i \in 1..Len(UpperSeq)}
Digits == {"0", "1", "2", "3", "4", "5", "6", "7", "8", "9"}

\* str.lower() and str.upper(), one character at a time
LowerChar(c) ==
    IF c \in UpperLetters
    THEN LowerSeq[CHOOSE i \in 1..Len(UpperSeq) : UpperSeq[i] = c]
    ELSE c

UpperChar(c) ==
    IF c \in LowerLetters
    THEN UpperSeq[CHOOSE i \in 1..Len(LowerSeq) : LowerSeq[i] = c]
    ELSE c

Lower(s) == [i \in 1..Len(s) |-> LowerChar(s[i])]

Upper(s) == [i \in 1..Len(s) |-> UpperChar(s[i])]

\* str.replace(old, new) for one-character old and new
Replace(s, old, new) == [i \in 1..Len(s) |-> IF s[i] = old THEN new ELSE s[i]]

\* the regular expression class \w
IsWordChar(c) == c \in LowerLetters \cup UpperLetters \cup Digits \cup {Underscore}

\* code point of a character, the key Python compares strings by
Ord(c) ==
    CASE c = " " -> 32 [] c = "-" -> 45 [] c = "." -> 46
      [] c = "0" -> 48 [] c = "1" -> 49 [] c = "2" -> 50 [] c = "3" -> 51
      [] c = "4" -> 52 [] c = "5" -> 53 [] c = "6" -> 54 [] c = "7" -> 55
      [] c = "8" -> 56 [] c = "9" -> 57
      [] c = "A" -> 65 [] c = "B" -> 66 [] c = "C" -> 67 [] c = "I" -> 73
      [] c = "M" -> 77 [] c = "O" -> 79 [] c = "S" -> 83 [] c = "T" -> 84
      [] c = "U" -> 85 [] c = "X" -> 88 [] c = "Y" -> 89
      [] c = "_" -> 95
      [] c = "a" -> 97 [] c = "b" -> 98 [] c = "c" -> 99 [] c = "i" -> 105
      [] c = "m" -> 109 [] c = "o" -> 111 [] c = "s" -> 115 [] c = "t" -> 116
      [] c = "u" -> 117 [] c = "x" -> 120 [] c = "y" -> 121
      [] OTHER -> 127

\* s < t in Python's string order
RECURSIVE StrLess(_, _)
StrLess(s, t) ==
    IF t = <<>> THEN FALSE
    ELSE IF s = <<>> THEN TRUE
    ELSE IF Ord(Head(s)) # Ord(Head(t)) THEN Ord(Head(s)) < Ord(Head(t))
    ELSE StrLess(Tail(s), Tail(t))

----------------------------------------------------------------------------
(* re.search(r'\b' + re.escape(p) + r'\b', q)                              *)

\* is the character at index i of q a word character (none outside q)
WordAt(q, i) == i >= 1 /\ i <= Len(q) /\ IsWordChar(q[i])

\* \b between q[i] and q[i+1]
BoundaryAt(q, i) == WordAt(q, i) # WordAt(q, i + 1)

\* the escaped pattern matches its own characters literally
MatchesAt(p, q, i) ==
    /\ i + Len(p) <= Len(q)
    /\ SubSeq(q, i + 1, i + Len(p)) = p
    /\ BoundaryAt(q, i)
    /\ BoundaryAt(q, i + Len(p))

ReSearchWord(p, q) == \E i \in 0..Len(q) : MatchesAt(p, q, i)

----------------------------------------------------------------------------
(* CourseRetriever.detect_course_from_query                                *)

NoCourse == <<"None">>

course_patterns(course) ==
    << Lower(course),
       Replace(Lower(course), Dash, Space),
       Replace(Lower(course), Underscore, Space) >>

CourseMentioned(course, query_lower) ==
    \E n \in 1..3 : ReSearchWord(course_patterns(course)[n], query_lower)

RECURSIVE FirstMentioned(_, _)
FirstMentioned(courses, query_lower) ==
    IF courses = <<>> THEN [course |-> NoCourse, confidence |-> 0]
    ELSE IF CourseMentioned(Head(courses), query_lower)
         THEN [course |-> Head(courses), confidence |-> 90]
         ELSE FirstMentioned(Tail(courses), query_lower)

\* confidence is in hundredths: 90 is 0.9
detect_course_from_query(q, courses) ==
    IF courses = <<>> THEN [course |-> NoCourse, confidence |-> 0]
    ELSE FirstMentioned(courses, Lower(q))

----------------------------------------------------------------------------
(* config.py                                                               *)

MISC_COURSE_ID == <<"M", "I", "S", "C">>
AUTO_COURSE_ID == <<"A", "U", "T", "O">>

TOP_K_RESULTS == 5

\* 0.3, in hundredths
SIMILARITY_THRESHOLD == 30

----------------------------------------------------------------------------
(* utils.py: sanitize_course_id, validate_course_id                        *)

\* the white space str.strip() removes
IsSpaceChar(c) == c \in {Space, "\t", "\n"}

RECURSIVE LStrip(_)
LStrip(s) == IF s # <<>> /\ IsSpaceChar(Head(s)) THEN LStrip(Tail(s)) ELSE s

RECURSIVE RStrip(_)
RStrip(s) ==
    IF s # <<>> /\ IsSpaceChar(s[Len(s)]) THEN RStrip(SubSeq(s, 1, Len(s) - 1)) ELSE s

Strip(s) == RStrip(LStrip(s))

\* the characters re.sub(r'[^A-Za-z0-9_-]', '', ...) keeps
IsIdChar(c) ==
    c \in LowerLetters \cup UpperLetters \cup Digits \cup {Underscore, Dash}

\* sanitize_course_id without the fallback to MISC_COURSE_ID
sanitize_course_id_no_fallback(raw) ==
    Upper(SelectSeq(Replace(Strip(raw), Space, Underscore), IsIdChar))

sanitize_course_id(raw) ==
    LET stripped == Strip(raw)
        underscored == Replace(stripped, Space, Underscore)
        cleaned == SelectSeq(underscored, IsIdChar)
        upper == Upper(cleaned)
    IN  IF upper = <<>> THEN MISC_COURSE_ID ELSE upper

validate_course_id(raw) ==
    /\ raw # <<>>
    /\ Strip(raw) # <<>>
    /\ Len(sanitize_course_id(raw)) >= 2
    /\ Len(sanitize_course_id(raw)) <= 50

----------------------------------------------------------------------------
(* document_processor.py: files to chunks                                  *)

\* str(n) for a small natural number
DigitSeq == <<"0", "1", "2", "3", "4", "5", "6", "7", "8", "9">>

RECURSIVE Str(_)
Str(n) ==
    IF n < 10 THEN <<DigitSeq[n + 1]>>
    ELSE Str(n \div 10) \o <<DigitSeq[(n % 10) + 1]>>

\* Path(filename).suffix.lower()
RECURSIVE LastDot(_, _)
LastDot(name, i) ==
    IF i <= 1 THEN 0 ELSE IF name[i] = "." THEN i ELSE LastDot(name, i - 1)

Suffix(name) ==
    LET d == LastDot(name, Len(name))
    IN  IF d = 0 \/ d = Len(name) THEN <<>> ELSE Lower(SubSeq(name, d, Len(name)))

\* f"{file_hash}_{page_num}_{chunk_idx}"
ChunkId(file_hash, page_num, chunk_idx) ==
    file_hash \o <<Underscore>> \o Str(page_num) \o <<Underscore>> \o Str(chunk_idx)

\* A file is [name, hash, pages, readable]: hash stands for md5(bytes)[:8],
\* pages[p] is the list of passages the text splitter cuts page p into
\* (empty for a page with no text), readable is whether parsing succeeds.
Document(file, course, doc_type, page_num, chunk_idx, file_type, total_pages) ==
    [ page_content |-> file.pages[page_num][chunk_idx + 1],
      course_id    |-> Upper(course),
      doc_type     |-> doc_type,
      source_file  |-> file.name,
      page_number  |-> page_num,
      chunk_id     |-> ChunkId(file.hash, page_num, chunk_idx),
      chunk_index  |-> chunk_idx,
      file_type    |-> file_type,
      total_pages  |-> total_pages ]

RECURSIVE PdfPages(_, _, _, _)
PdfPages(file, course, doc_type, page_num) ==
    IF page_num > Len(file.pages) THEN <<>>
    ELSE [i \in 1..Len(file.pages[page_num]) |->
             Document(file, course, doc_type, page_num, i - 1, "pdf", Len(file.pages))]
         \o PdfPages(file, course, doc_type, page_num + 1)

process_pdf(file, course, doc_type) == PdfPages(file, course, doc_type, 1)

process_txt(file, course, doc_type) ==
    [i \in 1..Len(file.pages[1]) |->
        Document(file, course, doc_type, 1, i - 1, "txt", 1)]

\* [ok, docs]: ok is FALSE where the code raises ValueError
process_file(file, course, doc_type) ==
    LET extension == Suffix(file.name)
    IN  IF extension = <<".", "p", "d", "f">>
        THEN [ok |-> file.readable,
              docs |-> IF file.readable THEN process_pdf(file, course, doc_type) ELSE <<>>]
        ELSE IF extension \in {<<".", "t", "x", "t">>, <<".", "t", "e", "x", "t">>}
        THEN [ok |-> TRUE, docs |-> process_txt(file, course, doc_type)]
        ELSE [ok |-> FALSE, docs |-> <<>>]

\* a batch loop that stops at the first file that fails
RECURSIVE process_multiple_files_abort(_, _, _)
process_multiple_files_abort(files, course, doc_type) ==
    IF files = <<>> THEN [documents |-> <<>>, errors |-> <<>>]
    ELSE LET first == process_file(Head(files), course, doc_type)
             rest == process_multiple_files_abort(Tail(files), course, doc_type)
         IN  IF first.ok
             THEN [documents |-> first.docs \o rest.documents, errors |-> rest.errors]
             ELSE [documents |-> <<>>, errors |-> <<Head(files).name>>]

\* [documents, errors]: errors holds the name of each file that failed
RECURSIVE process_multiple_files(_, _, _)
process_multiple_files(files, course, doc_type) ==
    IF files = <<>> THEN [documents |-> <<>>, errors |-> <<>>]
    ELSE LET first == process_file(Head(files), course, doc_type)
             rest == process_multiple_files(Tail(files), course, doc_type)
         IN  [documents |-> first.docs \o rest.documents,
              errors |-> (IF first.ok THEN <<>> ELSE <<Head(files).name>>) \o rest.errors]

----------------------------------------------------------------------------
(* vector_store.py: the Chroma collection                                  *)

Range(seq) == {seq[i] : i \in 1..Len(seq)}

\* an insert that never looks for the id
UpsertOne_append(coll, doc) == Append(coll, doc)

\* collection.upsert of one document, keyed by chunk_id
UpsertOne(coll, doc) ==
    IF \E i \in 1..Len(coll) : coll[i].chunk_id = doc.chunk_id
    THEN [i \in 1..Len(coll) |-> IF coll[i].chunk_id = doc.chunk_id THEN doc ELSE coll[i]]
    ELSE Append(coll, doc)

RECURSIVE add_documents(_, _)
add_documents(coll, docs) ==
    IF docs = <<>> THEN coll
    ELSE add_documents(UpsertOne(coll, Head(docs)), Tail(docs))

\* sorted(list(courses)): ascending in Python's string order
RECURSIVE SortedStrings(_)
SortedStrings(S) ==
    IF S = {} THEN <<>>
    ELSE LET least == CHOOSE m \in S : \A o \in S \ {m} : StrLess(m, o)
         IN  <<least>> \o SortedStrings(S \ {least})

\* distinct strings of a list, in order of first occurrence
RECURSIVE Distinct(_)
Distinct(seq) ==
    IF seq = <<>> THEN <<>>
    ELSE LET front == Distinct(SubSeq(seq, 1, Len(seq) - 1))
             last == seq[Len(seq)]
         IN  IF last \in Range(front) THEN front ELSE Append(front, last)

\* get_all_courses returning list(courses) in collection order, without sorted()
get_all_courses_unsorted(coll, index_ok) ==
    IF index_ok THEN Distinct([i \in 1..Len(coll) |-> coll[i].course_id]) ELSE <<>>

\* the except branch returns [] when the collection cannot be read
get_all_courses(coll, index_ok) ==
    IF index_ok THEN SortedStrings({coll[i].course_id : i \in 1..Len(coll)}) ELSE <<>>

\* where={"$and": [{"course_id": course_id.upper()}, {"source_file": source_file}]}
MatchesDocument(chunk, course, source_file) ==
    chunk.course_id = Upper(course) /\ chunk.source_file = source_file

\* delete_document whose where clause names the source file only
delete_document_by_file(coll, course, source_file, index_ok) ==
    IF index_ok /\ \E i \in 1..Len(coll) : coll[i].source_file = source_file
    THEN [found |-> TRUE,
          coll |-> SelectSeq(coll, LAMBDA c : c.source_file # source_file)]
    ELSE [found |-> FALSE, coll |-> coll]

\* [found, coll]: the return value and the collection afterwards
delete_document(coll, course, source_file, index_ok) ==
    IF index_ok /\ \E i \in 1..Len(coll) : MatchesDocument(coll[i], course, source_file)
    THEN [found |-> TRUE,
          coll |-> SelectSeq(coll, LAMBDA c : ~MatchesDocument(c, course, source_file))]
    ELSE [found |-> FALSE, coll |-> coll]

NoFilter == <<"NoFilter">>

\* similarity_search that never adds course_id to where_filter
CourseFilter_never(course) == NoFilter

\* if course_id and course_id != config.AUTO_COURSE_ID:
\*     where_filter["course_id"] = course_id.upper()
CourseFilter(course) ==
    IF course # NoCourse /\ course # <<>> /\ course # AUTO_COURSE_ID
    THEN Upper(course)
    ELSE NoFilter

\* the chunks the index may rank under a filter
Candidates(coll, filter) ==
    {i \in 1..Len(coll) : filter = NoFilter \/ coll[i].course_id = filter}

\* sequences of n distinct elements of S
RECURSIVE Arrangements(_, _)
Arrangements(S, n) ==
    IF n = 0 THEN {<<>>}
    ELSE UNION {{<<x>> \o rest : rest \in Arrangements(S \ {x}, n - 1)} : x \in S}

Min(a, b) == IF a <= b THEN a ELSE b

\* The index's answers to a query: the kk best candidates, best first; chunks
\* of equal relevance may come in either order.
IndexSearch(coll, scores, filter, kk) ==
    LET cand == Candidates(coll, filter)
        n == Min(kk, Cardinality(cand))
        score(i) == scores[coll[i].chunk_id]
        best(order) ==
            /\ \A a \in 1..n, b \in 1..n : a < b => score(order[a]) >= score(order[b])
            /\ \A i \in cand \ Range(order) : \A a \in 1..n : score(order[a]) >= score(i)
    IN  {[a \in 1..n |-> <<coll[order[a]], score(order[a])>>] :
            order \in {o \in Arrangements(cand, n) : best(o)}}

\* a search that answers from the collection even when the index call raises
similarity_search_with_scores_unguarded(coll, scores, course, kk, index_ok) ==
    IndexSearch(coll, scores, CourseFilter(course), kk)

\* similarity_search_with_relevance_scores behind the try/except of
\* similarity_search_with_scores: [] when the index call raises
similarity_search_with_scores(coll, scores, course, kk, index_ok) ==
    IF index_ok THEN IndexSearch(coll, scores, CourseFilter(course), kk) ELSE {<<>>}

\* similarity_search returns the documents of the same ranking
Docs(pairs) == [i \in 1..Len(pairs) |-> pairs[i][1]]

----------------------------------------------------------------------------
(* retriever.py: retrieve and retrieve_with_scores                         *)

IsAuto(selector) == selector = AUTO_COURSE_ID \/ selector = NoCourse

\* if detected_course and confidence >= 0.5: ... else: effective_course_id = None
ResolveAuto(det) ==
    IF det.course # NoCourse /\ det.course # <<>> /\ det.confidence >= 50
    THEN det.course
    ELSE NoCourse

\* the filter written with > in place of >=
FilterByThreshold_strict(results, score_threshold) ==
    SelectSeq(results, LAMBDA pair : pair[2] > score_threshold)

\* the filter of retrieve_with_scores
FilterByThreshold(results, score_threshold) ==
    SelectSeq(results, LAMBDA pair : pair[2] >= score_threshold)

\* similarity_search: the documents of the index's ranking, [] when it raises
similarity_search(coll, scores, course, kk, index_ok) ==
    IF index_ok
    THEN {Docs(pairs) : pairs \in IndexSearch(coll, scores, CourseFilter(course), kk)}
    ELSE {<<>>}

EffectiveCourse(coll, q, selector, courses_ok) ==
    IF IsAuto(selector)
    THEN ResolveAuto(detect_course_from_query(q, get_all_courses(coll, courses_ok)))
    ELSE selector

\* the lists retrieve may return
retrieve(coll, scores, q, selector, kk, courses_ok, search_ok) ==
    similarity_search(coll, scores,
                      EffectiveCourse(coll, q, selector, courses_ok), kk, search_ok)

----------------------------------------------------------------------------
(* retriever.py: get_source_citations                                      *)

Snippet_within_limit(page_content) ==
    IF Len(page_content) > 200
    THEN SubSeq(page_content, 1, 197) \o <<".", ".", ".">>
    ELSE page_content

\* doc.page_content[:200] + "..." if len(doc.page_content) > 200 else doc.page_content
Snippet(page_content) ==
    IF Len(page_content) > 200
    THEN SubSeq(page_content, 1, 200) \o <<".", ".", ".">>
    ELSE page_content

\* Every chunk of the collection carries source_file, page_number (an int),
\* doc_type and course_id (document_processor.py sets them), so the defaults
\* of metadata.get are never taken.
\* key = f"{source}_{page}"
CitationKey_source_only(doc) == doc.source_file

CitationKey(doc) == doc.source_file \o <<Underscore>> \o Str(doc.page_number)

Citation(doc) ==
    [ source_file |-> doc.source_file,
      page_number |-> doc.page_number,
      doc_type    |-> doc.doc_type,
      course_id   |-> doc.course_id,
      snippet     |-> Snippet(doc.page_content) ]

RECURSIVE CitationLoop(_, _, _)
CitationLoop(docs, seen, citations) ==
    IF docs = <<>> THEN citations
    ELSE LET key == CitationKey(Head(docs))
         IN  IF key \notin seen
             THEN CitationLoop(Tail(docs), seen \cup {key},
                               Append(citations, Citation(Head(docs))))
             ELSE CitationLoop(Tail(docs), seen, citations)

get_source_citations(docs) == CitationLoop(docs, {}, <<>>)

----------------------------------------------------------------------------
(* retriever.py: format_context                                            *)

\* "No relevant documents found."
NoDocumentsText ==
    <<"N", "o", Space, "r", "e", "l", "e", "v", "a", "n", "t", Space, "d", "o", "c", "u", "m", "e", "n", "t", "s", Space, "f", "o", "u", "n", "d", ".">>

\* the text of a doc_type value inside an f-string
DocTypeText(doc_type) ==
    CASE doc_type = "lecture" -> <<"l", "e", "c", "t", "u", "r", "e">>
      [] doc_type = "notes" -> <<"n", "o", "t", "e", "s">>
      [] OTHER -> <<"u", "n", "k", "n", "o", "w", "n">>

\* f"[Source: {source}" + f", Page {page}" + f", Type: {doc_type}, Course: {course}]"
\* page is never the default 'N/A': every chunk carries a page_number
SourceCitation(doc) ==
    <<"[", "S", "o", "u", "r", "c", "e", ":", Space>> \o doc.source_file
      \o <<",", Space, "P", "a", "g", "e", Space>> \o Str(doc.page_number)
      \o <<",", Space, "T", "y", "p", "e", ":", Space>> \o DocTypeText(doc.doc_type)
      \o <<",", Space, "C", "o", "u", "r", "s", "e", ":", Space>> \o doc.course_id \o <<"]">>

ContextPart_no_text(i, doc) ==
    <<Dash, Dash, Dash, Space, "D", "o", "c", "u", "m", "e", "n", "t", Space>> \o Str(i) \o <<Space>> \o SourceCitation(doc)
      \o <<Space, Dash, Dash, Dash, "\n">>

\* f"--- Document {i} {citation} ---\n{doc.page_content}"
ContextPart(i, doc) ==
    <<Dash, Dash, Dash, Space, "D", "o", "c", "u", "m", "e", "n", "t", Space>> \o Str(i) \o <<Space>> \o SourceCitation(doc)
      \o <<Space, Dash, Dash, Dash, "\n">> \o doc.page_content

\* separator.join(parts)
RECURSIVE Join(_, _)
Join(parts, separator) ==
    IF parts = <<>> THEN <<>>
    ELSE IF Len(parts) = 1 THEN parts[1]
    ELSE parts[1] \o separator \o Join(Tail(parts), separator)

ContextParts(docs) == [i \in 1..Len(docs) |-> ContextPart(i, docs[i])]

format_context(docs) ==
    IF docs = <<>> THEN NoDocumentsText
    ELSE Join(ContextParts(docs), <<"\n", "\n">>)

----------------------------------------------------------------------------
(* llm_chain.py: the events of generate_response_stream                    *)

None == [is_none |-> TRUE]

Some(v) == [is_none |-> FALSE, value |-> v]

\* stands for the fixed text "\n\n<warning sign> Error generating response: "
ErrorPrefix == <<"\n", "\n", "!", ":", Space>>

Evidence(docs) ==
    [i \in 1..Len(docs) |->
        [content |-> docs[i].page_content,
         metadata |-> [f \in DOMAIN docs[i] \ {"page_content"} |-> docs[i][f]]]]

FirstEvent_done(srcs, evid, n) ==
    [chunk |-> <<>>, sources |-> Some(srcs), evidence |-> Some(evid),
     num_sources |-> n, done |-> TRUE]

FirstEvent(srcs, evid, n) ==
    [chunk |-> <<>>, sources |-> Some(srcs), evidence |-> Some(evid),
     num_sources |-> n, done |-> FALSE]

TextEvent_twice(chunk) ==
    [chunk |-> chunk \o chunk, sources |-> None, evidence |-> None, done |-> FALSE]

TextEvent(chunk) ==
    [chunk |-> chunk, sources |-> None, evidence |-> None, done |-> FALSE]

FinalEvent_bare(srcs, evid) ==
    [chunk |-> <<>>, sources |-> None, evidence |-> None, done |-> TRUE]

FinalEvent(srcs, evid) ==
    [chunk |-> <<>>, sources |-> Some(srcs), evidence |-> Some(evid), done |-> TRUE]

ErrorEvent_not_done(e, srcs, evid) ==
    [chunk |-> ErrorPrefix \o e, sources |-> Some(srcs), evidence |-> Some(evid),
     done |-> FALSE]

ErrorEvent_no_marker(e, srcs, evid) ==
    [chunk |-> <<>>, sources |-> Some(srcs), evidence |-> Some(evid), done |-> TRUE]

\* an error event that carries no sources and no evidence
ErrorEvent_empty_sources(e, srcs, evid) ==
    [chunk |-> ErrorPrefix \o e, sources |-> Some(<<>>), evidence |-> Some(<<>>),
     done |-> TRUE]

ErrorEvent(e, srcs, evid) ==
    [chunk |-> ErrorPrefix \o e, sources |-> Some(srcs), evidence |-> Some(evid),
     done |-> TRUE]

----------------------------------------------------------------------------
(* Inputs of the detection specification                                   *)

MaxQueryLen == 4

QueryChars == {"a", "A", "b", Dash, Underscore, Space}

RECURSIVE StringsUpTo(_, _)
StringsUpTo(chars, n) ==
    IF n = 0 THEN {<<>>}
    ELSE LET shorter == StringsUpTo(chars, n - 1)
         IN  shorter \cup {Append(s, c) : s \in shorter, c \in chars}

Queries == StringsUpTo(QueryChars, MaxQueryLen)

\* course ids as sanitize_course_id leaves them: upper case, [A-Z0-9_-]
KnownIds == { <<"A", "B">>, <<"A", "-", "B">>, <<"A", "_", "B">>,
              <<"A", "-">>, <<"B", "A">> }

List1(x) == <<x>>

List2(x, y) == <<x, y>>

CourseLists ==
    {<<>>} \cup {List1(x) : x \in KnownIds}
           \cup {List2(x, y) : x \in KnownIds, y \in KnownIds}

NotCalled == [course |-> <<"NotCalled">>, confidence |-> 0]

----------------------------------------------------------------------------
(* Inputs of the retrieval specification                                   *)

\* two text files of one passage each
FileX == [ name |-> <<"x", ".", "t", "x", "t">>, hash |-> <<"0", "a">>,
           pages |-> << << <<"a", "a">> >> >>, readable |-> TRUE ]

FileY == [ name |-> <<"y", ".", "t", "x", "t">>, hash |-> <<"0", "b">>,
           pages |-> << << <<"c">> >> >>, readable |-> TRUE ]

Files == {FileX, FileY}

ChunkIdsOf(file) ==
    {ChunkId(file.hash, p, i - 1) :
        <<p, i>> \in {pi \in (1..Len(file.pages)) \X (1..2) :
                        pi[2] <= Len(file.pages[pi[1]])}}

ChunkIdsIn(files) == UNION {ChunkIdsOf(f) : f \in files}

AllChunkIds == ChunkIdsIn(Files)

Scores == {29, 30, 31}

\* what the user types into the Course ID box
RawCourses == { <<"a", "b">>, <<"b", "a">>, <<"a", "-", "b">> }

DocTypes == {"lecture"}

AskQueries == { <<"b", "a", Space, "A", "B">>, <<"a", Space, "b">>, <<"x">> }

Selectors == { NoCourse, AUTO_COURSE_ID, <<>>, <<"A", "B">>, <<"a", "b">> }

Ks == {1, TOP_K_RESULTS}

----------------------------------------------------------------------------
(* Inputs of the streaming specification                                   *)

\* w.txt: one page cut into two passages
FileW == [ name |-> <<"w", ".", "t", "x", "t">>, hash |-> <<"0", "c">>,
           pages |-> << << <<"a">>, <<"b">> >> >>, readable |-> TRUE ]

StreamFiles == {FileW}

StreamRawCourses == { <<"a", "b">>, <<"b", "a">> }

StreamQuestions == { <<"a", "b">>, <<"x">> }

StreamSelectors == { AUTO_COURSE_ID, <<"B", "A">> }

\* the text deltas the model may produce, and how many per answer
ModelDeltas == { <<>>, <<"a">>, <<"b", "c">> }

MaxDeltas == 2

\* str(e) of the exception the model may raise
ErrorTexts == { <<>>, <<"e">> }

----------------------------------------------------------------------------
(* Inputs of the citation specification                                    *)

MaxDocs == 3

CitedDocs ==
    { [ page_content |-> content, course_id |-> <<"A", "B">>, doc_type |-> "lecture",
        source_file |-> name, page_number |-> page ] :
        content \in { <<"a">>, <<"b">> },
        name \in { <<"a">>, <<"a", "_", "1">> },
        page \in {1, 11} }

RECURSIVE ListsUpTo(_, _)
ListsUpTo(S, n) ==
    IF n = 0 THEN {<<>>}
    ELSE LET shorter == ListsUpTo(S, n - 1)
         IN  shorter \cup {Append(l, x) : l \in shorter, x \in S}

----------------------------------------------------------------------------
(* Actions                                                                 *)

StreamIdle ==
    /\ pc = "idle"
    /\ documents = <<>>
    /\ sources = <<>>
    /\ evidence = <<>>
    /\ events = <<>>
    /\ llm_invoked = FALSE
    /\ deltas = <<>>
    /\ llm_error = None
    /\ full_response = <<>>
    /\ ui_sources = None
    /\ ui_evidence = None
    /\ messages = <<>>
    /\ generators = <<>>

DetectIdle ==
    /\ query = <<>>
    /\ available_courses = <<>>
    /\ detected = NotCalled

CallIdle ==
    /\ op = "none"
    /\ course_id = NoCourse
    /\ k = 0
    /\ where_filter = NoFilter
    /\ ranked = <<>>
    /\ returned = <<>>
    /\ logged = {}

ApplyIdle ==
    /\ applied = "none"
    /\ args = <<>>
    /\ result = <<>>

\* CourseRetriever.detect_course_from_query called on its own
Detect ==
    /\ detected = NotCalled
    /\ detected' = detect_course_from_query(query, available_courses)
    /\ UNCHANGED <<query, available_courses, store, relevance>>
    /\ UNCHANGED callVars
    /\ UNCHANGED streamVars
    /\ UNCHANGED applyVars

\* the error message of validate_course_id, "" when the id is valid
ValidationError(raw) ==
    IF raw = <<>> \/ Strip(raw) = <<>> THEN "Course ID cannot be empty"
    ELSE IF Len(sanitize_course_id(raw)) < 2 THEN "Course ID must be at least 2 characters"
    ELSE IF Len(sanitize_course_id(raw)) > 50 THEN "Course ID cannot exceed 50 characters"
    ELSE ""

\* process_uploads: [coll, documents, errors], coll the collection afterwards
process_uploads(coll, uploaded_files, raw, doc_type) ==
    LET sanitized_course == sanitize_course_id(raw)
        processed == process_multiple_files(uploaded_files, sanitized_course, doc_type)
    IN  [ coll |-> IF processed.documents # <<>>
                   THEN add_documents(coll, processed.documents)
                   ELSE coll,
          documents |-> processed.documents,
          errors |-> processed.errors ]

\* the handler answers st.error(message) without processing anything
Rejected(coll, message) ==
    [ coll |-> coll, error |-> message, processed |-> FALSE,
      documents |-> <<>>, errors |-> <<>> ]

\* the body of the Upload & Index button
UploadAndIndex(coll, raw, uploaded_files, doc_type) ==
    IF raw = <<>> THEN Rejected(coll, "Please enter a Course ID")
    ELSE IF uploaded_files = <<>> THEN Rejected(coll, "Please select files to upload")
    ELSE IF ~validate_course_id(raw) THEN Rejected(coll, ValidationError(raw))
    ELSE LET done == process_uploads(coll, uploaded_files, raw, doc_type)
         IN  [ coll |-> done.coll, error |-> "", processed |-> TRUE,
               documents |-> done.documents, errors |-> done.errors ]

\* the Upload & Index button of render_sidebar, then process_uploads
UploadOf(batches, raw_courses) ==
    /\ op = "none"
    /\ applied = "none"
    /\ \E raw \in raw_courses, uploaded_files \in batches, doc_type \in DocTypes :
        LET outcome == UploadAndIndex(store, raw, uploaded_files, doc_type)
        IN  /\ store' = outcome.coll
            /\ applied' = "upload"
            /\ args' = [ course_id |-> raw, files |-> uploaded_files,
                         doc_type |-> doc_type, before |-> store ]
            /\ result' = [ error |-> outcome.error, processed |-> outcome.processed,
                           documents |-> outcome.documents, errors |-> outcome.errors ]
    /\ UNCHANGED <<relevance>>
    /\ UNCHANGED detectVars
    /\ UNCHANGED callVars
    /\ UNCHANGED streamVars

Upload == UploadOf({List1(file) : file \in Files}, RawCourses)

\* VectorStoreManager.delete_document
DeleteOf(files, raw_courses) ==
    /\ op = "none"
    /\ applied = "none"
    /\ \E course \in {sanitize_course_id(raw) : raw \in raw_courses},
       file \in files, index_ok \in BOOLEAN :
        LET outcome == delete_document(store, course, file.name, index_ok)
        IN  /\ store' = outcome.coll
            /\ applied' = "delete"
            /\ args' = [ course_id |-> course, source_file |-> file.name,
                         index_ok |-> index_ok, before |-> store ]
            /\ result' = [ returned |-> outcome.found ]
    /\ UNCHANGED <<relevance>>
    /\ UNCHANGED detectVars
    /\ UNCHANGED callVars
    /\ UNCHANGED streamVars

Delete == DeleteOf(Files, RawCourses)

\* what logger.error records during a retriever call
Logged(auto, courses_ok, search_ok) ==
    (IF auto /\ ~courses_ok THEN {"Error getting courses"} ELSE {})
    \cup (IF ~search_ok THEN {"Error during similarity search"} ELSE {})

\* CourseRetriever.retrieve
RetrieveOf(queries, selectors, ks) ==
    /\ op = "none"
    /\ applied = "none"
    /\ \E q \in queries, selector \in selectors, kk \in ks, search_ok \in BOOLEAN :
      \E courses_ok \in (IF IsAuto(selector) THEN BOOLEAN ELSE {TRUE}) :
        LET courses == get_all_courses(store, courses_ok)
            det == detect_course_from_query(q, courses)
            effective_course_id ==
                IF IsAuto(selector) THEN ResolveAuto(det) ELSE selector
        IN  \E pairs \in similarity_search_with_scores(
                            store, relevance, effective_course_id, kk, search_ok) :
                /\ op' = "retrieve"
                /\ query' = q
                /\ course_id' = selector
                /\ k' = kk
                /\ available_courses' = IF IsAuto(selector) THEN courses ELSE <<>>
                /\ detected' = IF IsAuto(selector) THEN det ELSE NotCalled
                /\ where_filter' = CourseFilter(effective_course_id)
                /\ ranked' = pairs
                /\ returned' = Docs(pairs)
                /\ logged' = Logged(IsAuto(selector), courses_ok, search_ok)
                /\ UNCHANGED <<store, relevance>>
                /\ UNCHANGED streamVars
                /\ UNCHANGED applyVars

Retrieve == RetrieveOf(AskQueries, Selectors, Ks)

\* CourseRetriever.retrieve_with_scores
RetrieveWithScoresOf(queries, selectors, ks) ==
    /\ op = "none"
    /\ applied = "none"
    /\ \E q \in queries, selector \in selectors, kk \in ks, search_ok \in BOOLEAN :
      \E courses_ok \in (IF IsAuto(selector) THEN BOOLEAN ELSE {TRUE}) :
        LET courses == get_all_courses(store, courses_ok)
            det == detect_course_from_query(q, courses)
            effective_course_id ==
                IF IsAuto(selector) THEN ResolveAuto(det) ELSE selector
        IN  \E pairs \in similarity_search_with_scores(
                            store, relevance, effective_course_id, kk, search_ok) :
                /\ op' = "retrieve_with_scores"
                /\ query' = q
                /\ course_id' = selector
                /\ k' = kk
                /\ available_courses' = IF IsAuto(selector) THEN courses ELSE <<>>
                /\ detected' = IF IsAuto(selector) THEN det ELSE NotCalled
                /\ where_filter' = CourseFilter(effective_course_id)
                /\ ranked' = pairs
                /\ returned' = FilterByThreshold(pairs, SIMILARITY_THRESHOLD)
                /\ logged' = Logged(IsAuto(selector), courses_ok, search_ok)
                /\ UNCHANGED <<store, relevance>>
                /\ UNCHANGED streamVars

RetrieveWithScores ==
    /\ RetrieveWithScoresOf(AskQueries, Selectors, Ks)
    /\ UNCHANGED applyVars

\* the caller takes the result; the retriever keeps nothing between calls
Return ==
    /\ op \in {"retrieve", "retrieve_with_scores"} \/ applied # "none"
    /\ applied' = "none"
    /\ args' = <<>>
    /\ result' = <<>>
    /\ op' = "none"
    /\ course_id' = NoCourse
    /\ k' = 0
    /\ where_filter' = NoFilter
    /\ ranked' = <<>>
    /\ returned' = <<>>
    /\ logged' = {}
    /\ query' = <<>>
    /\ available_courses' = <<>>
    /\ detected' = NotCalled
    /\ UNCHANGED <<store, relevance>>
    /\ UNCHANGED streamVars

\* CourseRetriever.get_source_citations called on its own
Cite ==
    /\ pc = "idle"
    /\ pc' = "cited"
    /\ sources' = get_source_citations(documents)
    /\ UNCHANGED <<documents, evidence, events, llm_invoked, deltas, llm_error,
                   full_response, ui_sources, ui_evidence, messages, generators>>
    /\ UNCHANGED <<store, relevance>>
    /\ UNCHANGED detectVars
    /\ UNCHANGED callVars
    /\ UNCHANGED applyVars

\* one turn of the chat loop's body on the event the generator yielded
Consume(event) ==
    /\ ui_sources' = IF ~event.sources.is_none THEN event.sources ELSE ui_sources
    /\ ui_evidence' = IF ~event.sources.is_none THEN event.evidence ELSE ui_evidence
    /\ full_response' = full_response \o event.chunk

\* Every Pull action is one iteration of
\*     for chunk_data in rag_chain.generate_response_stream(...)
\* the generator runs to its next yield, then the loop body runs.

\* first pull: retrieval, citations, evidence, the sources event
PullFirst ==
    /\ applied = "none"
    /\ pc = "idle"
    /\ \E question \in StreamQuestions, selector \in StreamSelectors,
          courses_ok \in BOOLEAN, search_ok \in BOOLEAN :
        \E docs \in retrieve(store, relevance, question, selector,
                              TOP_K_RESULTS, courses_ok, search_ok) :
            LET event == FirstEvent(get_source_citations(docs), Evidence(docs), Len(docs))
            IN  /\ documents' = docs
                /\ sources' = get_source_citations(docs)
                /\ evidence' = Evidence(docs)
                /\ events' = <<event>>
                /\ Consume(event)
    /\ pc' = "yielded_sources"
    /\ UNCHANGED <<llm_invoked, deltas, llm_error, messages, generators>>
    /\ UNCHANGED <<store, relevance>>
    /\ UNCHANGED detectVars
    /\ UNCHANGED callVars
    /\ UNCHANGED applyVars

\* a later pull on which the model produces a text delta
PullDelta ==
    /\ applied = "none"
    /\ pc \in {"yielded_sources", "streaming"}
    /\ Len(deltas) < MaxDeltas
    /\ \E chunk \in ModelDeltas :
          /\ deltas' = Append(deltas, chunk)
          /\ events' = Append(events, TextEvent(chunk))
          /\ Consume(TextEvent(chunk))
    /\ llm_invoked' = TRUE
    /\ pc' = "streaming"
    /\ UNCHANGED <<documents, sources, evidence, llm_error, messages, generators>>
    /\ UNCHANGED <<store, relevance>>
    /\ UNCHANGED detectVars
    /\ UNCHANGED callVars
    /\ UNCHANGED applyVars

\* a later pull on which the model's stream ends
PullDone ==
    /\ applied = "none"
    /\ pc \in {"yielded_sources", "streaming"}
    /\ events' = Append(events, FinalEvent(sources, evidence))
    /\ Consume(FinalEvent(sources, evidence))
    /\ llm_invoked' = TRUE
    /\ pc' = "yielded_done"
    /\ UNCHANGED <<documents, sources, evidence, deltas, llm_error, messages, generators>>
    /\ UNCHANGED <<store, relevance>>
    /\ UNCHANGED detectVars
    /\ UNCHANGED callVars
    /\ UNCHANGED applyVars

\* a later pull on which the model raises
PullError ==
    /\ applied = "none"
    /\ pc \in {"yielded_sources", "streaming"}
    /\ \E e \in ErrorTexts :
          /\ llm_error' = Some(e)
          /\ events' = Append(events, ErrorEvent(e, sources, evidence))
          /\ Consume(ErrorEvent(e, sources, evidence))
    /\ llm_invoked' = TRUE
    /\ pc' = "yielded_done"
    /\ UNCHANGED <<documents, sources, evidence, deltas, messages, generators>>
    /\ UNCHANGED <<store, relevance>>
    /\ UNCHANGED detectVars
    /\ UNCHANGED callVars
    /\ UNCHANGED applyVars

\* the pull after the terminal event: the generator returns, the loop ends and
\* the chat loop appends the assistant message
PullStop ==
    /\ applied = "none"
    /\ pc = "yielded_done"
    /\ pc' = "exhausted"
    /\ messages' = Append(messages,
                          [role |-> "assistant", content |-> full_response,
                           sources |-> ui_sources, evidence |-> ui_evidence])
    /\ UNCHANGED <<documents, sources, evidence, events, llm_invoked, deltas,
                   llm_error, full_response, ui_sources, ui_evidence,
                   generators>>
    /\ UNCHANGED <<store, relevance>>
    /\ UNCHANGED detectVars
    /\ UNCHANGED callVars
    /\ UNCHANGED applyVars

StreamUpload == UploadOf({List1(file) : file \in StreamFiles}, StreamRawCourses)

StreamDelete == DeleteOf(StreamFiles, StreamRawCourses)

----------------------------------------------------------------------------
(* Specifications                                                          *)

\* detect_course_from_query on every query and course list within the bounds
InitDetect ==
    /\ query \in Queries
    /\ available_courses \in CourseLists
    /\ detected = NotCalled
    /\ store = <<>>
    /\ relevance = [id \in AllChunkIds |-> SIMILARITY_THRESHOLD]
    /\ CallIdle
    /\ StreamIdle
    /\ ApplyIdle

NextDetect == Detect

SpecDetect == InitDetect /\ [][NextDetect]_vars

\* uploads, deletions and retriever calls on one collection
Init ==
    /\ store = <<>>
    /\ relevance \in [AllChunkIds -> Scores]
    /\ DetectIdle
    /\ CallIdle
    /\ ApplyIdle
    /\ StreamIdle

Next ==
    \/ Upload
    \/ Delete
    \/ Retrieve
    \/ RetrieveWithScores
    \/ Return

Spec == Init /\ [][Next]_vars

\* get_source_citations on every list of at most MaxDocs chunks
InitCite ==
    /\ pc = "idle"
    /\ documents \in ListsUpTo(CitedDocs, MaxDocs)
    /\ sources = <<>>
    /\ evidence = <<>>
    /\ events = <<>>
    /\ llm_invoked = FALSE
    /\ deltas = <<>>
    /\ llm_error = None
    /\ full_response = <<>>
    /\ ui_sources = None
    /\ ui_evidence = None
    /\ messages = <<>>
    /\ generators = <<>>
    /\ store = <<>>
    /\ relevance = [id \in AllChunkIds |-> SIMILARITY_THRESHOLD]
    /\ DetectIdle
    /\ CallIdle
    /\ ApplyIdle

NextCite == Cite

SpecCite == InitCite /\ [][NextCite]_vars

\* one streamed answer, pulled by the chat loop, with uploads and deletions
\* on the collection before and between the pulls
InitStream ==
    /\ store = <<>>
    /\ relevance \in [ChunkIdsIn(StreamFiles) -> Scores]
    /\ DetectIdle
    /\ CallIdle
    /\ ApplyIdle
    /\ StreamIdle

NextStream ==
    \/ StreamUpload
    \/ StreamDelete
    \/ Return
    \/ PullFirst
    \/ PullDelta
    \/ PullDone
    \/ PullError
    \/ PullStop

SpecStream == InitStream /\ [][NextStream]_vars

----------------------------------------------------------------------------
(* C6: whole-word detection                                                *)

\* w occurs in q with no word character directly before or after it
ContainsWholeWord(q, w) ==
    \E i \in 0..Len(q) :
        /\ i + Len(w) <= Len(q)
        /\ SubSeq(q, i + 1, i + Len(w)) = w
        /\ ~WordAt(q, i)
        /\ ~WordAt(q, i + Len(w) + 1)

\* the id itself, or the id with '-' or with '_' written as a space
MentionsAsWord(q, course) ==
    \/ ContainsWholeWord(Lower(q), Lower(course))
    \/ ContainsWholeWord(Lower(q), Replace(Lower(course), Dash, Space))
    \/ ContainsWholeWord(Lower(q), Replace(Lower(course), Underscore, Space))

ListedCourses == {available_courses[i] : i \in 1..Len(available_courses)}

\* C6: detect_course_from_query returns (c, 0.9) for a known course c only
\* when the query contains c as a whole word (case-insensitively, literally
\* or with '-' or '_' replaced by a space), and returns (None, 0.0) exactly
\* when no known course id appears as a whole word.
C6_WholeWordDetection ==
    detected # NotCalled =>
        /\ detected.course # NoCourse =>
              /\ detected.confidence = 90
              /\ detected.course \in ListedCourses
              /\ MentionsAsWord(query, detected.course)
        /\ detected.course = NoCourse =>
              /\ detected.confidence = 0
              /\ \A c \in ListedCourses : ~MentionsAsWord(query, c)

----------------------------------------------------------------------------
(* C7: the course AUTO detection picks                                     *)

RetrieverOps == {"retrieve", "retrieve_with_scores"}

StoredCourses == {store[i].course_id : i \in 1..Len(store)}

IsAscending(list) ==
    \A i \in 1..Len(list), j \in 1..Len(list) : i < j => StrLess(list[i], list[j])

\* the stored courses the query mentions, by the patterns of the detection
MatchingCourses == {c \in StoredCourses : CourseMentioned(c, Lower(query))}

IsLeast(c, S) == c \in S /\ \A o \in S \ {c} : StrLess(c, o)

DetectsLeastMatching ==
    /\ Range(available_courses) = StoredCourses
    /\ IsAscending(available_courses)
    /\ IF MatchingCourses = {}
       THEN detected = [course |-> NoCourse, confidence |-> 0]
       ELSE /\ IsLeast(detected.course, MatchingCourses)
            /\ detected.confidence = 90

\* C7 as stated: in AUTO mode the list handed to detection is the distinct
\* stored course ids in ascending order and the detected course is the
\* smallest course id the query mentions.
C7_Original ==
    (op \in RetrieverOps /\ IsAuto(course_id)) => DetectsLeastMatching

\* C7 as amended: the same whenever the collection could be read; when reading
\* it fails, get_all_courses returns the empty list and nothing is detected.
C7_LeastMatchingCourse ==
    (op \in RetrieverOps /\ IsAuto(course_id)) =>
        IF "Error getting courses" \in logged
        THEN /\ available_courses = <<>>
             /\ detected = [course |-> NoCourse, confidence |-> 0]
        ELSE DetectsLeastMatching

\* BA was uploaded before AB, the query names BA before AB, and AB is detected
C7_Witness ==
    /\ op = "retrieve"
    /\ course_id = AUTO_COURSE_ID
    /\ Len(store) = 2
    /\ store[1].course_id = <<"B", "A">>
    /\ store[2].course_id = <<"A", "B">>
    /\ query = <<"b", "a", Space, "A", "B">>
    /\ detected = [course |-> <<"A", "B">>, confidence |-> 90]

----------------------------------------------------------------------------
(* C8: scope resolution                                                    *)

ReturnedChunks ==
    IF op = "retrieve_with_scores"
    THEN {returned[i][1] : i \in 1..Len(returned)}
    ELSE Range(returned)

DetectedScope ==
    IF detected.course # NoCourse /\ detected.confidence >= 50
    THEN detected.course
    ELSE NoFilter

ScopedResults ==
    /\ where_filter # NoFilter =>
          \A chunk \in ReturnedChunks : chunk.course_id = where_filter
    /\ (where_filter = NoFilter /\ "Error during similarity search" \notin logged) =>
          Len(ranked) = Min(k, Len(store))

----------------------------------------------------------------------------
(* C9: the score threshold                                                 *)

KeptPositions == {i \in 1..Len(ranked) : ranked[i][2] >= SIMILARITY_THRESHOLD}

\* the n-th position of ranked whose score reaches the threshold
KeptPosition(n) ==
    CHOOSE i \in KeptPositions : Cardinality({j \in KeptPositions : j < i}) = n - 1

\* C9: retrieve_with_scores returns no pair scored below the threshold; its
\* result is the index's ranking with exactly the pairs below the threshold
\* removed, the others in their order.
C9_ThresholdFilter ==
    op = "retrieve_with_scores" =>
        /\ \A i \in 1..Len(returned) : returned[i][2] >= SIMILARITY_THRESHOLD
        /\ Len(returned) = Cardinality(KeptPositions)
        /\ \A n \in 1..Len(returned) : returned[n] = ranked[KeptPosition(n)]

\* a pair scored at the threshold is kept, the pair scored just below is dropped
C9_Witness ==
    /\ op = "retrieve_with_scores"
    /\ Len(ranked) = 2
    /\ ranked[1][2] = SIMILARITY_THRESHOLD
    /\ ranked[2][2] = SIMILARITY_THRESHOLD - 1
    /\ returned = <<ranked[1]>>


----------------------------------------------------------------------------
(* The event stream of generate_response_stream (specification SpecStream) *)

RECURSIVE Concat(_)
Concat(texts) ==
    IF texts = <<>> THEN <<>> ELSE Head(texts) \o Concat(Tail(texts))

Chunks(evs) == [i \in 1..Len(evs) |-> evs[i].chunk]

NonFinal(evs) == SelectSeq(evs, LAMBDA ev : ~ev.done)

DonePositions == {i \in 1..Len(events) : events[i].done}

StartsWith(text, prefix) ==
    /\ Len(text) >= Len(prefix)
    /\ SubSeq(text, 1, Len(prefix)) = prefix

IsCompletionEvent(ev) == ev.done /\ ev.chunk = <<>>

IsErrorEvent(ev) == ev.done /\ StartsWith(ev.chunk, ErrorPrefix)

Exhausted == pc = "exhausted"

\* C1: a stream pulled to exhaustion holds exactly one event with done = true,
\* and it is the last one, whether the model completed or raised; at no time
\* is an event with done = true followed by another event; a completion event
\* and an error event never both occur, the terminal event being the error
\* event exactly when the model raised.
C1_ExactlyOneDoneLast ==
    /\ \A i \in DonePositions : i = Len(events)
    /\ Exhausted => DonePositions = {Len(events)} /\ Len(events) >= 2
    /\ ~ \E i, j \in 1..Len(events) :
            IsCompletionEvent(events[i]) /\ IsErrorEvent(events[j])
    /\ Exhausted =>
          IF llm_error = None
          THEN IsCompletionEvent(events[Len(events)])
          ELSE IsErrorEvent(events[Len(events)])

\* the model raised after two text deltas and the stream was pulled to its end
C1_Witness ==
    /\ Exhausted
    /\ llm_error # None
    /\ Len(deltas) = MaxDeltas

\* C2: on a stream that ended without a generation error, the chunks of the
\* non-final events, concatenated in emission order, are the model's deltas
\* concatenated in order, which is the full_response the chat loop assembled
\* and stored; the text events carry the deltas one for one, in order.
C2_ChunksAssembleAnswer ==
    (Exhausted /\ llm_error = None) =>
        /\ Concat(Chunks(NonFinal(events))) = Concat(deltas)
        /\ full_response = Concat(deltas)
        /\ messages[Len(messages)].content = Concat(deltas)
        /\ Len(events) = Len(deltas) + 2
        /\ \A i \in 1..Len(deltas) : events[i + 1].chunk = deltas[i]

\* two different non-empty deltas were produced and the stream completed
C2_Witness ==
    /\ Exhausted
    /\ llm_error = None
    /\ deltas = << <<"a">>, <<"b", "c">> >>

\* C3: the first event has chunk "", done = false, and non-null sources and
\* evidence which are the citations and the evidence of the retrieved chunks;
\* while it is the only event the model has not been invoked, and the model
\* is never invoked before it; also with no chunk retrieved and with a later
\* generation error.
C3_FirstEvent ==
    /\ pc # "idle" => Len(events) >= 1
    /\ llm_invoked => Len(events) >= 2
    /\ Len(events) = 1 => ~llm_invoked
    /\ Len(events) >= 1 =>
          /\ events[1].chunk = <<>>
          /\ events[1].done = FALSE
          /\ ~events[1].sources.is_none
          /\ ~events[1].evidence.is_none
          /\ events[1].sources.value = get_source_citations(documents)
          /\ Len(events[1].evidence.value) = Len(documents)
          /\ \A i \in 1..Len(documents) :
                /\ events[1].evidence.value[i].content = documents[i].page_content
                /\ events[1].evidence.value[i].metadata.source_file
                     = documents[i].source_file

\* nothing was retrieved from a non-empty collection and the model then raised
C3_Witness ==
    /\ Exhausted
    /\ store # <<>>
    /\ documents = <<>>
    /\ llm_error # None

\* C4: without generation error the events are one sources event, then text
\* events with sources = null, evidence = null and done = false, then one
\* final event with chunk "", the first event's sources and evidence and
\* done = true; nothing follows the final event and no event between the
\* first and the final one has non-null sources.
C4_EventOrder ==
    llm_error = None =>
        /\ \A i \in 2..Len(events) :
              IF events[i].done
              THEN /\ i = Len(events)
                   /\ events[i].chunk = <<>>
                   /\ events[i].sources = events[1].sources
                   /\ events[i].evidence = events[1].evidence
                   /\ ~events[i].sources.is_none
                   /\ ~events[i].evidence.is_none
              ELSE /\ events[i].sources = None
                   /\ events[i].evidence = None
        /\ Exhausted =>
              /\ Len(events) >= 2
              /\ ~events[1].done
              /\ ~events[1].sources.is_none
              /\ events[Len(events)].done

\* a completed stream with two text events over retrieved chunks
C4_Witness ==
    /\ Exhausted
    /\ llm_error = None
    /\ Len(deltas) = MaxDeltas
    /\ documents # <<>>

\* C5: when the model raises, exactly one event follows the first event and
\* the text events; its chunk is the error marker followed by the exception's
\* text, which the chat loop appends to the partial answer; it has sources and
\* evidence populated and done = true; no event follows it and the chat loop
\* ends through its normal path, storing the partial answer with the marker.
C5_ErrorEvent ==
    llm_error # None =>
        LET n == Len(events)
        IN  /\ n = Len(deltas) + 2
            /\ \A i \in 1..(n - 1) : ~events[i].done
            /\ \A i \in 1..Len(deltas) : events[i + 1].chunk = deltas[i]
            /\ events[n].chunk = ErrorPrefix \o llm_error.value
            /\ events[n].done
            /\ events[n].sources = Some(get_source_citations(documents))
            /\ events[n].evidence = events[1].evidence
            /\ ~events[n].evidence.is_none
            /\ full_response = Concat(deltas) \o ErrorPrefix \o llm_error.value
            /\ pc \in {"yielded_done", "exhausted"}
            /\ Exhausted =>
                  /\ Len(messages) = 1
                  /\ messages[1].role = "assistant"
                  /\ messages[1].content = full_response
                  /\ messages[1].sources = events[n].sources

\* the model raised with a message after one non-empty text delta
C5_Witness ==
    /\ Exhausted
    /\ llm_error = Some(<<"e">>)
    /\ Len(deltas) = 1
    /\ deltas[1] # <<>>
    /\ documents # <<>>

----------------------------------------------------------------------------
(* Citations (specification SpecCite)                                      *)

FilePage(doc) == <<doc.source_file, doc.page_number>>

Positions(n) == [i \in 1..n |-> i]

\* the positions of the chunks whose (file, page) pair no earlier chunk has
FirstOccurrences(docs) ==
    SelectSeq(Positions(Len(docs)),
              LAMBDA i : \A j \in 1..(i - 1) : FilePage(docs[j]) # FilePage(docs[i]))

\* C10: get_source_citations returns one citation per distinct
\* (source_file, page_number) pair of its input, in order of first occurrence,
\* each built from the first chunk with that pair.
C10_CitationsDeduplicated ==
    pc = "cited" =>
        LET firsts == FirstOccurrences(documents)
        IN  /\ Len(sources) = Len(firsts)
            /\ Len(sources) = Cardinality({FilePage(documents[i]) : i \in 1..Len(documents)})
            /\ \A n \in 1..Len(firsts) :
                  LET doc == documents[firsts[n]]
                  IN  /\ sources[n].source_file = doc.source_file
                      /\ sources[n].page_number = doc.page_number
                      /\ sources[n].doc_type = doc.doc_type
                      /\ sources[n].course_id = doc.course_id
                      /\ sources[n].snippet = Snippet(doc.page_content)

\* same file and page first and last (different text), another page between
C10_Witness ==
    /\ pc = "cited"
    /\ Len(documents) = 3
    /\ FilePage(documents[1]) = FilePage(documents[3])
    /\ documents[1].page_content # documents[3].page_content
    /\ documents[1].source_file = documents[2].source_file
    /\ documents[1].page_number # documents[2].page_number
    /\ Len(sources) = 2


----------------------------------------------------------------------------
(* Snippets of citations (specification SpecSnippet)                       *)

Repeat(c, n) == [i \in 1..n |-> c]

\* lengths of chunk text around the cut at 200 characters
SnippetLengths == {0, 1, 199, 200, 201, 203, 260}

SnippetDocs ==
    { [ page_content |-> Repeat("a", n), course_id |-> <<"A", "B">>,
        doc_type |-> "lecture", source_file |-> <<"a">>, page_number |-> page ] :
        n \in SnippetLengths, page \in {1, 2} }

MaxSnippetDocs == 2

\* get_source_citations on lists of chunks with short and long text
InitSnippet ==
    /\ pc = "idle"
    /\ documents \in ListsUpTo(SnippetDocs, MaxSnippetDocs)
    /\ sources = <<>>
    /\ evidence = <<>>
    /\ events = <<>>
    /\ llm_invoked = FALSE
    /\ deltas = <<>>
    /\ llm_error = None
    /\ full_response = <<>>
    /\ ui_sources = None
    /\ ui_evidence = None
    /\ messages = <<>>
    /\ generators = <<>>
    /\ store = <<>>
    /\ relevance = [id \in AllChunkIds |-> SIMILARITY_THRESHOLD]
    /\ DetectIdle
    /\ CallIdle
    /\ ApplyIdle

NextSnippet == Cite

SpecSnippet == InitSnippet /\ [][NextSnippet]_vars

Ellipsis == <<".", ".", ".">>

EndsWith(text, suffix) ==
    /\ Len(text) >= Len(suffix)
    /\ SubSeq(text, Len(text) - Len(suffix) + 1, Len(text)) = suffix

\* the chunk the n-th citation was built from
CitedChunk(n) == documents[FirstOccurrences(documents)[n]]

\* C11 as stated: every snippet has at most 200 characters; it is the chunk
\* text when that has at most 200 characters, otherwise a truncation of it
\* ending with an ellipsis.
C11_Original ==
    pc = "cited" =>
        \A n \in 1..Len(sources) :
            LET text == CitedChunk(n).page_content
                snippet == sources[n].snippet
            IN  /\ Len(snippet) <= 200
                /\ IF Len(text) <= 200
                   THEN snippet = text
                   ELSE EndsWith(snippet, Ellipsis)

\* C11: a snippet is the chunk text when that has at most 200 characters;
\* otherwise it is the first 200 characters of the text followed by "...",
\* 203 characters in all.
C11_SnippetTruncation ==
    pc = "cited" =>
        \A n \in 1..Len(sources) :
            LET text == CitedChunk(n).page_content
                snippet == sources[n].snippet
            IN  IF Len(text) <= 200
                THEN snippet = text
                ELSE /\ Len(snippet) = 203
                     /\ SubSeq(snippet, 1, 200) = SubSeq(text, 1, 200)
                     /\ SubSeq(snippet, 201, 203) = Ellipsis

\* citations of a chunk of exactly 200 characters and of one of 201
C11_Witness ==
    /\ pc = "cited"
    /\ Len(sources) = 2
    /\ Len(CitedChunk(1).page_content) = 200
    /\ Len(CitedChunk(2).page_content) = 201
    /\ Len(sources[2].snippet) = 203


----------------------------------------------------------------------------
(* Functions applied on their own: every other variable stays idle         *)

OthersIdle ==
    /\ store = <<>>
    /\ relevance = [id \in AllChunkIds |-> SIMILARITY_THRESHOLD]
    /\ DetectIdle
    /\ CallIdle
    /\ StreamIdle

OthersUnchanged ==
    /\ UNCHANGED <<store, relevance>>
    /\ UNCHANGED detectVars
    /\ UNCHANGED callVars
    /\ UNCHANGED streamVars

----------------------------------------------------------------------------
(* format_context (specification SpecContext)                              *)

ContextTexts == { <<>>, <<"a">>, <<"b", "\n", "\n", "c">> }

ContextDocs ==
    { [ page_content |-> content, course_id |-> <<"A", "B">>, doc_type |-> doc_type,
        source_file |-> name, page_number |-> page ] :
        content \in ContextTexts,
        doc_type \in {"lecture", "notes"},
        name \in { <<"x", ".", "t", "x", "t">>, <<"y", ".", "p", "d", "f">> },
        page \in {1, 12} }

MaxContextDocs == 2

InitContext ==
    /\ applied = "none"
    /\ args \in ListsUpTo(ContextDocs, MaxContextDocs)
    /\ result = <<>>
    /\ OthersIdle

\* CourseRetriever.format_context called on its own
FormatContext ==
    /\ applied = "none"
    /\ applied' = "format_context"
    /\ result' = format_context(args)
    /\ UNCHANGED args
    /\ OthersUnchanged

NextContext == FormatContext

SpecContext == InitContext /\ [][NextContext]_vars

\* text occurs in whole, contiguously
IsInfix(part, whole) ==
    \E i \in 0..(Len(whole) - Len(part)) : SubSeq(whole, i + 1, i + Len(part)) = part

\* the block the claim expects for the i-th chunk: header line, then the text
ExpectedBlock(i, doc) ==
    <<Dash, Dash, Dash, Space, "D", "o", "c", "u", "m", "e", "n", "t", Space>> \o Str(i)
      \o <<Space, "[", "S", "o", "u", "r", "c", "e", ":", Space>> \o doc.source_file
      \o <<",", Space, "P", "a", "g", "e", Space>> \o Str(doc.page_number)
      \o <<",", Space, "T", "y", "p", "e", ":", Space>> \o DocTypeText(doc.doc_type)
      \o <<",", Space, "C", "o", "u", "r", "s", "e", ":", Space>> \o doc.course_id
      \o <<"]", Space, Dash, Dash, Dash, "\n">> \o doc.page_content

\* blocks 1..n of docs with a blank line between neighbours
RECURSIVE BlocksUpTo(_, _)
BlocksUpTo(docs, n) ==
    IF n = 0 THEN <<>>
    ELSE IF n = 1 THEN ExpectedBlock(1, docs[1])
    ELSE BlocksUpTo(docs, n - 1) \o <<"\n", "\n">> \o ExpectedBlock(n, docs[n])

\* C12: format_context returns "No relevant documents found." exactly when
\* the chunk list is empty; otherwise the result is one block per chunk, in
\* the order of the list, joined by blank lines, each block being a header
\* that names source file, page, doc type and course, followed by the text.
C12_ContextBlocks ==
    applied = "format_context" =>
        /\ (result = NoDocumentsText) <=> (args = <<>>)
        /\ args # <<>> => result = BlocksUpTo(args, Len(args))
        /\ \A i \in 1..Len(args) :
              /\ IsInfix(args[i].source_file, ExpectedBlock(i, args[i]))
              /\ IsInfix(args[i].page_content, result)

\* two chunks of different files, the first with a blank line in its text
C12_Witness ==
    /\ applied = "format_context"
    /\ Len(args) = 2
    /\ args[1].source_file # args[2].source_file
    /\ args[1].page_content = <<"b", "\n", "\n", "c">>
    /\ args[2].page_content = <<"a">>
    /\ args[1].page_number = 12


----------------------------------------------------------------------------
(* llm_chain.py: _format_chat_history (specification SpecHistory)          *)

MAX_CHAT_HISTORY == 10

\* seq[start:] of Python, for any integer start
SliceFrom(seq, start) ==
    LET from == IF start < 0
                THEN (IF Len(seq) + start < 0 THEN 0 ELSE Len(seq) + start)
                ELSE (IF start > Len(seq) THEN Len(seq) ELSE start)
    IN  SubSeq(seq, from + 1, Len(seq))

\* history[-max_turns * 2:] if len(history) > max_turns * 2 else history
RecentHistory(history, max_turns) ==
    IF Len(history) > max_turns * 2
    THEN SliceFrom(history, -(max_turns * 2))
    ELSE history

\* HumanMessage(content) / AIMessage(content); other roles are skipped
PromptMessage(msg) ==
    [ type |-> IF msg.role = "user" THEN "human" ELSE "ai", content |-> msg.content ]

PromptMessages(history) ==
    LET kept == SelectSeq(history, LAMBDA msg : msg.role \in {"user", "assistant"})
    IN  [i \in 1..Len(kept) |-> PromptMessage(kept[i])]

format_chat_history(history, max_turns) ==
    PromptMessages(RecentHistory(history, max_turns))

MaxHistory == 5

MaxTurns == 2

\* histories of the chat: the i-th message has the text i
Histories ==
    UNION { { [i \in 1..n |-> [role |-> roles[i], content |-> Str(i)]] :
                roles \in [1..n -> {"user", "assistant"}] } : n \in 0..MaxHistory }

WindowSizes == (0..MaxTurns) \cup {MAX_CHAT_HISTORY}

InitHistory ==
    /\ applied = "none"
    /\ args \in { [history |-> history, max_turns |-> max_turns] :
                     history \in Histories, max_turns \in WindowSizes }
    /\ result = <<>>
    /\ OthersIdle

\* RAGChain._format_chat_history called on its own
FormatHistory ==
    /\ applied = "none"
    /\ applied' = "format_chat_history"
    /\ result' = format_chat_history(args.history, args.max_turns)
    /\ UNCHANGED args
    /\ OthersUnchanged

NextHistory == FormatHistory

SpecHistory == InitHistory /\ [][NextHistory]_vars

\* the last n messages of a history (all of them when it has fewer)
LastMessages(history, n) ==
    IF Len(history) <= n THEN history
    ELSE SubSeq(history, Len(history) - n + 1, Len(history))

WindowHolds ==
    LET n == 2 * args.max_turns
        recent == LastMessages(args.history, n)
    IN  /\ Len(result) <= n
        /\ Len(result) = Len(recent)
        /\ \A i \in 1..Len(recent) :
              /\ result[i].content = recent[i].content
              /\ result[i].type = (IF recent[i].role = "user" THEN "human" ELSE "ai")

\* C13: for every history and every window size N the prompt history holds at
\* most 2*N messages, and they are the most recent messages of the input in
\* their original order.
C13_HistoryWindow ==
    applied = "format_chat_history" => WindowHolds

\* the same statement for window sizes of at least one turn
C13_PositiveWindow ==
    (applied = "format_chat_history" /\ args.max_turns >= 1) => WindowHolds


----------------------------------------------------------------------------
(* The sidebar: uploads and deletions (specification SpecSidebar)          *)

\* x.txt again, with other bytes that make two chunks
FileX2 == [ name |-> <<"x", ".", "t", "x", "t">>, hash |-> <<"0", "d">>,
            pages |-> << << <<"b">>, <<"c">> >> >>, readable |-> TRUE ]

\* a file type process_file does not support
FileZ == [ name |-> <<"z", ".", "d", "o", "c">>, hash |-> <<"0", "e">>,
           pages |-> << << <<"a">> >> >>, readable |-> TRUE ]

\* a PDF that pdfplumber cannot open
FileP == [ name |-> <<"p", ".", "p", "d", "f">>, hash |-> <<"0", "f">>,
           pages |-> << << <<"a">> >> >>, readable |-> FALSE ]

SidebarFiles == {FileX, FileX2, FileY, FileZ, FileP}

\* what the file uploader may hold when the button is pressed
SidebarBatches ==
    {<<>>} \cup {List1(file) : file \in SidebarFiles}
           \cup { <<FileX, FileY>>, <<FileZ, FileX>>, <<FileP, FileY>> }

\* what the Course ID box may hold: nothing, a blank, one letter, 51 letters,
\* only characters that sanitize_course_id removes, and two usable ids
SidebarRawCourses ==
    { <<>>, <<Space>>, <<"a">>, Repeat("a", 51), <<"!", "!">>,
      <<"a", "b">>, <<"b", "a">> }

SidebarDeleteCourses == { <<"a", "b">>, <<"B", "A">>, MISC_COURSE_ID }

SidebarUpload == UploadOf(SidebarBatches, SidebarRawCourses)

SidebarDelete == DeleteOf(SidebarFiles, SidebarDeleteCourses)

InitSidebar ==
    /\ ApplyIdle
    /\ OthersIdle

NextSidebar ==
    \/ SidebarUpload
    \/ SidebarDelete
    \/ Return

SpecSidebar == InitSidebar /\ [][NextSidebar]_vars

\* the chunks a deletion is aimed at
IsTarget(chunk) ==
    /\ chunk.course_id = Upper(args.course_id)
    /\ chunk.source_file = args.source_file

Targets == {i \in 1..Len(args.before) : IsTarget(args.before[i])}

Survivors == SelectSeq(args.before, LAMBDA chunk : ~IsTarget(chunk))

\* C14 as stated: delete_document returns false and changes nothing when no
\* chunk has the (course, file) key; when some chunk has it, it returns true,
\* removes every such chunk and no other.
C14_Original ==
    applied = "delete" =>
        IF Targets = {}
        THEN result.returned = FALSE /\ store = args.before
        ELSE result.returned = TRUE /\ store = Survivors

\* C14: delete_document always returns a boolean; it returns false and leaves
\* the collection unchanged when no chunk has the (course, file) key or when
\* the index raises; otherwise it returns true, removes every chunk whose
\* course_id (upper-cased argument) and source_file both match, and keeps
\* every other chunk, in order.
C14_DeleteDocument ==
    applied = "delete" =>
        /\ result.returned \in BOOLEAN
        /\ IF Targets = {} \/ ~args.index_ok
           THEN result.returned = FALSE /\ store = args.before
           ELSE /\ result.returned = TRUE
                /\ store = Survivors
                /\ \A i \in 1..Len(store) : ~IsTarget(store[i])
                /\ Len(store) = Len(args.before) - Cardinality(Targets)

\* x.txt of one course is deleted while the collection also holds x.txt of
\* another course and another file of the same course
C14_Witness ==
    /\ applied = "delete"
    /\ result.returned
    /\ Targets # {}
    /\ \E i \in 1..Len(args.before) :
          /\ args.before[i].source_file = args.source_file
          /\ args.before[i].course_id # Upper(args.course_id)
    /\ \E i \in 1..Len(args.before) :
          /\ args.before[i].source_file # args.source_file
          /\ args.before[i].course_id = Upper(args.course_id)
    /\ Len(store) = 2


ChunkIdList(docs) == [i \in 1..Len(docs) |-> docs[i].chunk_id]

StoredIds(coll) == {coll[i].chunk_id : i \in 1..Len(coll)}

\* the upload was carried out and produced chunks
Ingested ==
    /\ applied = "upload"
    /\ result.processed
    /\ result.documents # <<>>

\* every chunk of this upload was ingested before, from the same bytes and
\* for the same course, and is still stored
RepeatsEarlierUpload ==
    \A i \in 1..Len(result.documents) :
        \E j \in 1..Len(args.before) :
            /\ args.before[j].chunk_id = result.documents[i].chunk_id
            /\ args.before[j].page_content = result.documents[i].page_content
            /\ args.before[j].course_id = result.documents[i].course_id

\* the earlier upload's chunks with the ids of this upload, in stored order
EarlierIds ==
    ChunkIdList(SelectSeq(args.before,
        LAMBDA chunk : chunk.chunk_id \in StoredIds(result.documents)))

\* C15: ingesting the same bytes again for the same course yields the same
\* chunk ids in the same order, and the second upload is an upsert: the set
\* of stored chunk ids and the number of stored chunks do not change.
C15_IdempotentUpload ==
    (Ingested /\ RepeatsEarlierUpload) =>
        /\ StoredIds(store) = StoredIds(args.before)
        /\ Len(store) = Len(args.before)
        /\ ChunkIdList(store) = ChunkIdList(args.before)
        /\ Len(args.files) = 1 => ChunkIdList(result.documents) = EarlierIds

\* a file of two chunks is uploaded again to a collection that holds both
\* and a chunk of another file
C15_Witness ==
    /\ Ingested
    /\ RepeatsEarlierUpload
    /\ Len(args.files) = 1
    /\ Len(result.documents) = 2
    /\ Len(args.before) = 3
    /\ Len(store) = 3


\* a stored chunk of the same course and file name as a chunk of this upload,
\* made from other bytes (the file hash, so the chunk id, differs)
IsEarlierVersion(chunk) ==
    /\ chunk.chunk_id \notin StoredIds(result.documents)
    /\ \E i \in 1..Len(result.documents) :
          /\ result.documents[i].course_id = chunk.course_id
          /\ result.documents[i].source_file = chunk.source_file

\* the chunk is still stored: same id, same course, same file
StillStored(chunk) ==
    \E n \in 1..Len(store) :
        /\ store[n].chunk_id = chunk.chunk_id
        /\ store[n].course_id = chunk.course_id
        /\ store[n].source_file = chunk.source_file

\* the file hash a chunk id begins with: f"{file_hash}_{page_num}_{chunk_idx}"
RECURSIVE UpToUnderscore(_)
UpToUnderscore(text) ==
    IF text = <<>> \/ Head(text) = Underscore THEN <<>>
    ELSE <<Head(text)>> \o UpToUnderscore(Tail(text))

\* the collection holds the chunk's file, same course and name, from other bytes
HasOtherVersion(chunk, coll) ==
    \E n \in 1..Len(coll) :
        /\ coll[n].course_id = chunk.course_id
        /\ coll[n].source_file = chunk.source_file
        /\ UpToUnderscore(coll[n].chunk_id) # UpToUnderscore(chunk.chunk_id)

\* the chunks of an upload get ids the earlier version did not have, and the
\* earlier version's chunks stay
KeptBesideNewVersion ==
    Ingested =>
        \A j \in 1..Len(args.before) :
            IsEarlierVersion(args.before[j]) =>
                /\ StillStored(args.before[j])
                /\ \A i \in 1..Len(result.documents) :
                      /\ result.documents[i].chunk_id # args.before[j].chunk_id
                      /\ StillStored(result.documents[i])

\* C16: an upload whose file was stored before under the same course and name
\* with other bytes adds its chunks under new ids and keeps every chunk of
\* the earlier upload; a stored chunk leaves its (course, file) only through
\* delete_document for that (course, file).
\* File hashes are taken to differ whenever the bytes differ.
C16_OldChunksKept ==
    /\ KeptBesideNewVersion
    /\ applied \in {"upload", "delete"} =>
          \A j \in 1..Len(args.before) :
              (HasOtherVersion(args.before[j], args.before)
                    /\ ~StillStored(args.before[j])) =>
                  applied = "delete" /\ IsTarget(args.before[j])

\* the part of C16 about the one upload that brings the new bytes
C16_SameUpload == KeptBesideNewVersion

\* x.txt is uploaded with new bytes to the course that holds the old x.txt:
\* the old chunk and the two new ones are stored side by side
C16_Witness ==
    /\ Ingested
    /\ Len(result.documents) = 2
    /\ \E j \in 1..Len(args.before) : IsEarlierVersion(args.before[j])
    /\ \A i \in 1..2 : result.documents[i].chunk_id \notin StoredIds(args.before)
    /\ Len(store) = Len(args.before) + 2


----------------------------------------------------------------------------
(* Index failure during a search (specification Spec)                      *)

SearchFailed == "Error during similarity search" \in logged

\* C17: when the index fails during a search, similarity_search and
\* similarity_search_with_scores return an empty result instead of raising, so
\* retrieve and retrieve_with_scores return an empty list; the generator then
\* builds the sentinel context, no sources and no evidence, as it does when
\* nothing relevant is stored.
C17_SearchSoftFail ==
    (op \in RetrieverOps /\ SearchFailed) =>
        /\ ranked = <<>>
        /\ returned = <<>>
        /\ format_context(returned) = NoDocumentsText
        /\ get_source_citations(returned) = <<>>
        /\ Evidence(returned) = <<>>
        /\ format_context(returned) = format_context(<<>>)

\* the index fails on a retrieve whose filter matches stored chunks
C17_Witness ==
    /\ op = "retrieve"
    /\ SearchFailed
    /\ Candidates(store, where_filter) # {}
    /\ where_filter # NoFilter
    /\ returned = <<>>


----------------------------------------------------------------------------
(* process_multiple_files (specification SpecBatch)                        *)

\* a text file with nothing but white space: no chunk, no error
FileE == [ name |-> <<"e", ".", "t", "x", "t">>, hash |-> <<"1", "0">>,
           pages |-> << <<>> >>, readable |-> TRUE ]

BatchFiles == {FileX, FileX2, FileE, FileZ, FileP}

MaxBatch == 3

InitBatch ==
    /\ applied = "none"
    /\ args \in { [files |-> files, course_id |-> <<"A", "B">>, doc_type |-> "lecture"] :
                     files \in ListsUpTo(BatchFiles, MaxBatch) }
    /\ result = <<>>
    /\ OthersIdle

\* DocumentProcessor.process_multiple_files called on its own
ProcessBatch ==
    /\ applied = "none"
    /\ applied' = "process_multiple_files"
    /\ result' = process_multiple_files(args.files, args.course_id, args.doc_type)
    /\ UNCHANGED args
    /\ OthersUnchanged

NextBatch == ProcessBatch

SpecBatch == InitBatch /\ [][NextBatch]_vars

\* the file cannot be processed: unsupported extension, or a PDF that cannot
\* be opened
Fails(file) ==
    \/ Suffix(file.name) \notin { <<".", "p", "d", "f">>, <<".", "t", "x", "t">>,
                                  <<".", "t", "e", "x", "t">> }
    \/ Suffix(file.name) = <<".", "p", "d", "f">> /\ ~file.readable

\* chunks of the first n files of the batch that process, in batch order
RECURSIVE ChunksOfFirst(_)
ChunksOfFirst(n) ==
    IF n = 0 THEN <<>>
    ELSE ChunksOfFirst(n - 1)
         \o (IF Fails(args.files[n]) THEN <<>>
             ELSE process_file(args.files[n], args.course_id, args.doc_type).docs)

FailedNames ==
    LET failed == SelectSeq(args.files, Fails)
    IN  [i \in 1..Len(failed) |-> failed[i].name]

\* C18: process_multiple_files returns, for any batch, the chunks of every
\* file that processed, concatenated in batch order, and one error per file
\* that failed, in batch order; a failing file stops neither the files before
\* it nor the files after it.
C18_BatchContinues ==
    applied = "process_multiple_files" =>
        /\ result.documents = ChunksOfFirst(Len(args.files))
        /\ result.errors = FailedNames
        /\ Len(result.errors) = Cardinality({i \in 1..Len(args.files) : Fails(args.files[i])})

\* an unsupported file, then a text file of two chunks, then a broken PDF
C18_Witness ==
    /\ applied = "process_multiple_files"
    /\ args.files = <<FileZ, FileX2, FileP>>
    /\ Len(result.documents) = 2
    /\ Len(result.errors) = 2


----------------------------------------------------------------------------
(* sanitize_course_id (specification SpecSanitize)                         *)

MaxRawLen == 4

\* letters of both cases, a digit, white space, separators and a character
\* the regular expression removes
RawChars == {"a", "B", "1", Space, "\t", Dash, Underscore, "!"}

RawIds == StringsUpTo(RawChars, MaxRawLen)

InitSanitize ==
    /\ applied = "none"
    /\ args \in RawIds
    /\ result = <<>>
    /\ OthersIdle

\* sanitize_course_id applied to a raw id, and again to its own output
Sanitize ==
    /\ applied = "none"
    /\ applied' = "sanitize_course_id"
    /\ result' = [ once |-> sanitize_course_id(args),
                   twice |-> sanitize_course_id(sanitize_course_id(args)) ]
    /\ UNCHANGED args
    /\ OthersUnchanged

NextSanitize == Sanitize

SpecSanitize == InitSanitize /\ [][NextSanitize]_vars

\* C19: sanitize_course_id is idempotent, and its output is never empty and
\* holds only the characters A-Z, 0-9, '_' and '-'.
C19_SanitizeIdempotent ==
    applied = "sanitize_course_id" =>
        /\ result.twice = result.once
        /\ result.once # <<>>
        /\ \A i \in 1..Len(result.once) :
              result.once[i] \in UpperLetters \cup Digits \cup {Underscore, Dash}

\* white space around and inside, a removed character and a lower-case letter
C19_Witness ==
    /\ applied = "sanitize_course_id"
    /\ args = <<Space, "a", Space, "!">>
    /\ result.once = <<"A", Underscore>>


----------------------------------------------------------------------------
(* Rejected uploads (specification SpecSidebar)                            *)

\* what is left of a raw id after strip, space to underscore and the removal
\* of the characters outside [A-Za-z0-9_-]
KeptOfRaw(raw) == SelectSeq(Replace(Strip(raw), Space, Underscore), IsIdChar)

\* made only of characters that normalization removes
OnlyRemovedChars(raw) == raw # <<>> /\ Strip(raw) # <<>> /\ KeptOfRaw(raw) = <<>>

\* empty, blank, or not 2 to 50 characters long after normalization
InvalidCourseId(raw) ==
    \/ raw = <<>>
    \/ Strip(raw) = <<>>
    \/ Len(KeptOfRaw(raw)) < 2
    \/ Len(KeptOfRaw(raw)) > 50

UploadRejected ==
    /\ ~result.processed
    /\ result.error # ""
    /\ result.documents = <<>>
    /\ result.errors = <<>>
    /\ store = args.before

\* C20: an upload whose course id is empty or invalid (blank, not 2 to 50
\* characters after normalization, or made only of characters normalization
\* removes), or that selects no file, is rejected with an error before any
\* file is processed: no chunk is created and the store is unchanged.
C20_InvalidUploadRejected ==
    (applied = "upload" /\ (InvalidCourseId(args.course_id) \/ args.files = <<>>)) =>
        UploadRejected

\* the same statement without the ids made only of removed characters
C20_ExceptRemovedChars ==
    (applied = "upload" /\ ~OnlyRemovedChars(args.course_id)
        /\ (InvalidCourseId(args.course_id) \/ args.files = <<>>)) =>
        UploadRejected

\* ---------------------------------------------------------------------------
\* Course ids on the storage side and on the query side
\* ---------------------------------------------------------------------------

ScopeRawCourses ==
    { <<"a", Space, "b">>, <<"a", "b">>, <<"!", "!">>, <<"a">>,
      <<"a", "u", "t", "o">> }

ScopeSelectors ==
    { AUTO_COURSE_ID, <<"a", Space, "b">>, <<"A", Underscore, "B">>, <<"a", "b">> }

ScopeQueries == { <<"a", Space, "b">>, <<"x">> }

ScopeUpload == UploadOf({List1(file) : file \in Files}, ScopeRawCourses)

ScopeDelete == DeleteOf(Files, ScopeRawCourses)

ScopeRetrieve == RetrieveOf(ScopeQueries, ScopeSelectors, {TOP_K_RESULTS})

NextScope ==
    \/ ScopeUpload
    \/ ScopeDelete
    \/ ScopeRetrieve
    \/ Return

SpecScope == Init /\ [][NextScope]_vars

\* a course id in the form sanitize_course_id and validate_course_id accept
IsNormalized(id) ==
    /\ Len(id) >= 2
    /\ Len(id) <= 50
    /\ \A i \in 1..Len(id) : IsIdChar(id[i]) /\ id[i] \notin LowerLetters

\* C21 (storage side): after any sequence of uploads and deletions every
\* stored chunk carries a normalized course_id: upper case, only A-Z, 0-9,
\* '_' and '-', of length 2 to 50, and unchanged by sanitize_course_id.
C21_StoredCoursesNormalized ==
    \A i \in 1..Len(store) :
        /\ IsNormalized(store[i].course_id)
        /\ sanitize_course_id(store[i].course_id) = store[i].course_id

\* C21: every stored chunk has a normalized course_id and every course id
\* used as a query filter is normalized in the same way, that is, the filter
\* compared with the stored course ids is the sanitized form of the course
\* the retrieval is scoped to.
C21_CourseIdsNormalized ==
    /\ C21_StoredCoursesNormalized
    /\ (op = "retrieve" /\ where_filter # NoFilter) =>
          /\ IsNormalized(where_filter)
          /\ where_filter =
                sanitize_course_id(IF IsAuto(course_id) THEN detected.course
                                   ELSE course_id)

\* a chunk uploaded as "a b" is stored under A_B while a retrieval scoped to
\* "a b" compares the stored course ids with "A B"
C21_Witness ==
    /\ op = "retrieve"
    /\ course_id = <<"a", Space, "b">>
    /\ where_filter = <<"A", Space, "B">>
    /\ \E i \in 1..Len(store) : store[i].course_id = <<"A", Underscore, "B">>
    /\ returned = <<>>

\* ---------------------------------------------------------------------------
\* The text splitter of DocumentProcessor and the listing of a course's files
\* ---------------------------------------------------------------------------

CHUNK_SIZE == 1000

CHUNK_OVERLAP == 200

\* separators=["\n\n", "\n", ". ", " ", ""]
Separators ==
    << <<"\n", "\n">>, <<"\n">>, <<".", Space>>, <<Space>>, <<>> >>

Least(S) == CHOOSE x \in S : \A y \in S : x <= y

Greatest(S) == CHOOSE x \in S : \A y \in S : x >= y

\* str.strip() of text[a..b]
StripWhitespace(text, a, b) ==
    LET kept == {i \in a..b : ~IsSpaceChar(text[i])}
    IN  IF kept = {} THEN <<>> ELSE SubSeq(text, Least(kept), Greatest(kept))

IsBlank(text) == \A i \in 1..Len(text) : IsSpaceChar(text[i])

OccursAt(text, sep, i) ==
    /\ i + Len(sep) - 1 <= Len(text)
    /\ \A j \in 1..Len(sep) : text[i + j - 1] = sep[j]

\* where a run of the character c that covers position i begins
RunStart(text, c, i) ==
    Greatest({p \in 1..i : p = 1 \/ text[p - 1] # c})

\* the matches re.split finds: left to right, never overlapping
MatchStarts(text, sep) ==
    { i \in 1..Len(text) :
        /\ OccursAt(text, sep, i)
        /\ (Len(sep) = 2 /\ sep[1] = sep[2]) =>
              LET r == RunStart(text, sep[1], i) IN (i - r) % 2 = 0 }

\* _split_text_with_regex with keep_separator: every piece but the first
\* begins with the separator; the pieces are given by where they begin
PieceStarts(text, sep) ==
    IF Len(text) = 0 THEN {}
    ELSE IF sep = <<>> THEN 1..Len(text)
    ELSE {1} \cup MatchStarts(text, sep)

NextStart(starts, n, p) ==
    IF p + 1 \in starts THEN p + 1
    ELSE Least({q \in starts : q > p} \cup {n + 1})

\* _join_docs: the pieces joined, stripped; nothing when that is empty
JoinDocs(text, a, b) ==
    LET joined == StripWhitespace(text, a, b)
    IN  IF joined = <<>> THEN <<>> ELSE <<joined>>

\* _merge_splits over the pieces beginning in first..end-1, each shorter than
\* size.  current_doc is the pieces from first on; d is the first piece that
\* no longer fits (total + len(d) > chunk_size): the chunk is emitted and
\* pieces are popped from the front while total > chunk_overlap or d still
\* does not fit.
RECURSIVE merge_splits(_, _, _, _, _, _)
merge_splits(text, starts, first, end, size, overlap) ==
    IF first >= end THEN <<>>
    ELSE IF end - first <= size THEN JoinDocs(text, first, end - 1)
    ELSE LET d == Greatest({q \in starts : q <= first + size})
             after_d == NextStart(starts, Len(text), d)
             kept == Least({f \in starts :
                              /\ first <= f
                              /\ f <= d
                              /\ d - f <= overlap
                              /\ (after_d - f <= size \/ f = d)})
         IN  JoinDocs(text, first, d - 1)
                \o merge_splits(text, starts, kept, end, size, overlap)

\* the first separator of the list, from position n on, that the text holds
RECURSIVE SeparatorIndex(_, _)
SeparatorIndex(text, n) ==
    IF n >= Len(Separators) THEN Len(Separators)
    ELSE IF Separators[n] = <<>> \/ MatchStarts(text, Separators[n]) # {}
         THEN n
         ELSE SeparatorIndex(text, n + 1)

\* RecursiveCharacterTextSplitter._split_text: runs of pieces shorter than
\* chunk_size are merged, a longer piece is split by the next separators
RECURSIVE split_text_from(_, _, _, _)
RECURSIVE SplitPieces(_, _, _, _, _, _)
SplitPieces(text, starts, n, p, size, overlap) ==
    IF p > Len(text) THEN <<>>
    ELSE LET long == {q \in starts :
                        q >= p /\ NextStart(starts, Len(text), q) - q >= size}
             q == Least(long \cup {Len(text) + 1})
         IN  merge_splits(text, starts, p, q, size, overlap)
                \o (IF q > Len(text) THEN <<>>
                    ELSE LET after_q == NextStart(starts, Len(text), q)
                             piece == SubSeq(text, q, after_q - 1)
                         IN  (IF n >= Len(Separators) THEN <<piece>>
                              ELSE split_text_from(piece, n + 1, size, overlap))
                                \o SplitPieces(text, starts, n, after_q, size, overlap))

split_text_from(text, from, size, overlap) ==
    LET n == SeparatorIndex(text, from)
    IN  SplitPieces(text, PieceStarts(text, Separators[n]), n, 1, size, overlap)

split_text(text) == split_text_from(text, 1, CHUNK_SIZE, CHUNK_OVERLAP)

\* a text file as process_txt sees it: if not text.strip() there is no chunk,
\* else the chunks are text_splitter.split_text(text)
TextFile(name, hash, text) ==
    [ name |-> name, hash |-> hash,
      pages |-> << IF IsBlank(text) THEN <<>> ELSE split_text(text) >>,
      readable |-> TRUE ]

\* VectorStoreManager.get_documents_by_course: one entry per source_file of
\* the course, in the order the files are first met; [] when the index raises
DocumentInfo(doc) ==
    [ source_file |-> doc.source_file, doc_type |-> doc.doc_type,
      file_type |-> doc.file_type, total_pages |-> doc.total_pages,
      course_id |-> doc.course_id ]

\* get_documents_by_course without the grouping by source_file
get_documents_by_course_per_chunk(coll, course, index_ok) ==
    IF ~index_ok THEN <<>>
    ELSE LET matching == SelectSeq(coll, LAMBDA doc : doc.course_id = Upper(course))
         IN  [n \in 1..Len(matching) |-> DocumentInfo(matching[n])]

get_documents_by_course(coll, course, index_ok) ==
    IF ~index_ok THEN <<>>
    ELSE LET first_of_file(i) ==
                /\ coll[i].course_id = Upper(course)
                /\ \A j \in 1..(i - 1) :
                      coll[j].course_id = Upper(course) =>
                          coll[j].source_file # coll[i].source_file
             firsts == {i \in 1..Len(coll) : first_of_file(i)}
             nth(n) == CHOOSE i \in firsts :
                          Cardinality({j \in firsts : j < i}) = n - 1
         IN  [n \in 1..Cardinality(firsts) |-> DocumentInfo(coll[nth(n)])]

\* texts of 2500 characters: no separator at all; four paragraphs; words of
\* nine letters; sentences; only blanks; and a text of 2601 characters
PlainText == Repeat("a", 2500)

ParagraphText ==
    [i \in 1..2500 |-> IF i < 2500 /\ i % 625 \in {624, 0} THEN "\n" ELSE "a"]

WordsText == [i \in 1..2500 |-> IF i % 10 = 0 THEN Space ELSE "a"]

SentencesText ==
    [i \in 1..2500 |-> IF i % 500 = 499 THEN "." ELSE IF i % 500 = 0 THEN Space ELSE "a"]

BlankText == Repeat(Space, 2500)

LongerText == Repeat("a", 2601)

\* two lines of 1249 and 1250 characters, each split again at the characters
LinesText == [i \in 1..2500 |-> IF i = 1250 THEN "\n" ELSE "a"]

\* words of six letters with one line break
MixedText ==
    [i \in 1..2500 |-> IF i = 300 THEN "\n" ELSE IF i % 7 = 0 THEN Space ELSE "a"]

NotesName == <<"n", ".", "t", "x", "t">>

PlainFile == TextFile(NotesName, <<"2", "0">>, PlainText)

ParagraphFile == TextFile(NotesName, <<"2", "1">>, ParagraphText)

WordsFile == TextFile(NotesName, <<"2", "2">>, WordsText)

SentencesFile == TextFile(NotesName, <<"2", "3">>, SentencesText)

BlankFile == TextFile(NotesName, <<"2", "4">>, BlankText)

LongerFile == TextFile(NotesName, <<"2", "5">>, LongerText)

LinesFile == TextFile(NotesName, <<"2", "6">>, LinesText)

MixedFile == TextFile(NotesName, <<"2", "7">>, MixedText)

ScenarioFiles ==
    { PlainFile, ParagraphFile, WordsFile, SentencesFile, BlankFile,
      LongerFile, LinesFile, MixedFile }

ScenarioRawCourses ==
    { <<"c", "s", Space, "1", "0", "1">>, <<"c", "s", "1", "0", "1">>,
      <<"C", "S", Underscore, "1", "0", "1">> }

ScenarioListedCourses ==
    { <<"C", "S", "1", "0", "1">>, <<"C", "S", Underscore, "1", "0", "1">>,
      <<"c", "s", Underscore, "1", "0", "1">> }

\* one upload into an empty index
ScenarioUpload ==
    /\ store = <<>>
    /\ UploadOf({List1(file) : file \in ScenarioFiles}, ScenarioRawCourses)

\* the sidebar's listing of the documents of a course
ListDocuments ==
    /\ op = "none"
    /\ applied = "none"
    /\ \E course \in ScenarioListedCourses, index_ok \in BOOLEAN :
        /\ applied' = "list"
        /\ args' = [ course_id |-> course, index_ok |-> index_ok ]
        /\ result' = [ documents |-> get_documents_by_course(store, course, index_ok) ]
    /\ UNCHANGED <<store, relevance>>
    /\ UNCHANGED detectVars
    /\ UNCHANGED callVars
    /\ UNCHANGED streamVars

NextScenario ==
    \/ ScenarioUpload
    \/ ListDocuments
    \/ Return

SpecScenario == InitSidebar /\ [][NextScenario]_vars

CS_101 == <<"C", "S", Underscore, "1", "0", "1">>

CS101 == <<"C", "S", "1", "0", "1">>

\* the scenario's request: one text file of 2500 characters, Course ID
\* "cs 101", document type lecture, on an empty index
ScenarioRequest ==
    /\ applied = "upload"
    /\ args.course_id = <<"c", "s", Space, "1", "0", "1">>
    /\ args.doc_type = "lecture"
    /\ args.before = <<>>
    /\ args.files \in {List1(file) : file \in ScenarioFiles \ {LongerFile}}

\* the 2500-character texts in which no separator forces an earlier cut
UnbrokenFiles == {PlainFile, WordsFile, SentencesFile}

ChunkLengths(coll) == [i \in 1..Len(coll) |-> Len(coll[i].page_content)]

\* the index as one upload of a non-empty file to "cs 101" leaves it
StoredUnderCS_101 ==
    /\ store # <<>>
    /\ \A i \in 1..Len(store) : store[i].course_id = CS_101

NoDocumentsFound ==
    << "N", "o", Space, "d", "o", "c", "u", "m", "e", "n",
       "t", "s", Space, "f", "o", "u", "n", "d", Space, "m",
       "a", "t", "c", "h", "i", "n", "g", Space, "y", "o",
       "u", "r", Space, "q", "u", "e", "r", "y", "." >>

\* the record built from the results of retrieve_with_scores
check_relevance(results) ==
    IF results = <<>>
    THEN [ has_relevant_docs |-> FALSE,
           message |-> Some(NoDocumentsFound),
           top_score |-> 0 ]
    ELSE [ has_relevant_docs |-> Len(results) > 0,
           num_relevant |-> Len(results),
           top_score |-> results[1][2],
           message |-> None ]

CheckRelevance ==
    /\ RetrieveWithScoresOf(AskQueries, {AUTO_COURSE_ID, <<"A", "B">>}, {TOP_K_RESULTS})
    /\ applied' = "check_relevance"
    /\ args' = [ question |-> query', course_id |-> course_id' ]
    /\ result' = check_relevance(returned')

NextRelevance ==
    \/ Upload
    \/ Delete
    \/ CheckRelevance
    \/ Return

SpecRelevance == Init /\ [][NextRelevance]_vars

RelevanceFields == {"has_relevant_docs", "num_relevant", "top_score", "message"}

\* what check_relevance reports when some result reaches the threshold
RelevantReported ==
    (applied = "check_relevance" /\ returned # <<>>) =>
        /\ DOMAIN result = RelevanceFields
        /\ result.has_relevant_docs
        /\ result.num_relevant = Len(returned)
        /\ \A i \in 1..Len(returned) :
              /\ returned[i][2] >= SIMILARITY_THRESHOLD
              /\ returned[i][2] <= result.top_score
        /\ \E i \in 1..Len(returned) : returned[i][2] = result.top_score
        /\ result.num_relevant =
              Cardinality({i \in 1..Len(ranked) : ranked[i][2] >= SIMILARITY_THRESHOLD})

\* what check_relevance reports when no result reaches the threshold
NothingRelevantReported ==
    (applied = "check_relevance" /\ returned = <<>>) =>
        /\ ~result.has_relevant_docs
        /\ result.top_score = 0
        /\ ~result.message.is_none
        /\ \A i \in 1..Len(ranked) : ranked[i][2] < SIMILARITY_THRESHOLD

\* C23: check_relevance always returns a record with the four fields
\* has_relevant_docs, num_relevant, top_score and message; with no result at
\* or above the threshold has_relevant_docs is false, top_score is 0 and
\* message is a text; otherwise has_relevant_docs is true, num_relevant
\* counts the results at or above the threshold and top_score is their
\* highest score.
C23_RelevanceRecord ==
    /\ applied = "check_relevance" => DOMAIN result = RelevanceFields
    /\ NothingRelevantReported
    /\ RelevantReported

\* C23 without the requirement that num_relevant is present when nothing
\* reaches the threshold
C23_ExceptMissingField ==
    /\ NothingRelevantReported
    /\ RelevantReported
    /\ (applied = "check_relevance" /\ returned = <<>>) =>
          DOMAIN result = RelevanceFields \ {"num_relevant"}

C23_NothingRelevant ==
    /\ applied = "check_relevance"
    /\ returned = <<>>
    /\ ranked # <<>>

\* ---------------------------------------------------------------------------
\* RAGChain.generate_response
\* ---------------------------------------------------------------------------

\* what chain.invoke does: it returns an answer or raises
Answered(text) == [ok |-> TRUE, text |-> text]

Raised(text) == [ok |-> FALSE, text |-> text]

ModelOutcomes ==
    {Answered(text) : text \in ModelDeltas} \cup {Raised(e) : e \in ErrorTexts}

\* generate_response that answers with an empty text when the model raises
generate_response_partial(question, docs, history, outcome) ==
    [ prompt |-> [ context |-> format_context(docs),
                   chat_history |-> format_chat_history(history, MAX_CHAT_HISTORY),
                   question |-> question ],
      raised |-> None,
      value |-> Some([ answer |-> IF outcome.ok THEN outcome.text ELSE <<>>,
                       sources |-> get_source_citations(docs),
                       evidence |-> Evidence(docs),
                       num_sources |-> Len(docs) ]) ]

\* generate_response after retrieval: prompt is what chain.invoke is given,
\* raised the exception that reaches the caller, value the dict returned
generate_response(question, docs, history, outcome) ==
    [ prompt |-> [ context |-> format_context(docs),
                   chat_history |-> format_chat_history(history, MAX_CHAT_HISTORY),
                   question |-> question ],
      raised |-> IF outcome.ok THEN None ELSE Some(outcome.text),
      value |-> IF outcome.ok
                THEN Some([ answer |-> outcome.text,
                            sources |-> get_source_citations(docs),
                            evidence |-> Evidence(docs),
                            num_sources |-> Len(docs) ])
                ELSE None ]

GenerateFiles == {FileW, FileX}

GenerateScores == {29, 31}

GenerateHistories ==
    { <<>>, << [role |-> "user", content |-> <<"x">>],
               [role |-> "assistant", content |-> <<"a">>] >> }

GenerateUpload == UploadOf({List1(file) : file \in GenerateFiles}, StreamRawCourses)

GenerateDelete == DeleteOf(GenerateFiles, StreamRawCourses)

\* one call of generate_response; returned keeps the chunks it retrieved
Generate ==
    /\ op = "none"
    /\ applied = "none"
    /\ \E question \in StreamQuestions, selector \in StreamSelectors,
          history \in GenerateHistories,
          courses_ok \in BOOLEAN, search_ok \in BOOLEAN, outcome \in ModelOutcomes :
        \E docs \in retrieve(store, relevance, question, selector,
                              TOP_K_RESULTS, courses_ok, search_ok) :
            /\ applied' = "generate_response"
            /\ args' = [ question |-> question, course_id |-> selector,
                         chat_history |-> history, model |-> outcome ]
            /\ returned' = docs
            /\ result' = generate_response(question, docs, history, outcome)
    /\ UNCHANGED <<op, course_id, k, where_filter, ranked, logged>>
    /\ UNCHANGED <<store, relevance>>
    /\ UNCHANGED detectVars
    /\ UNCHANGED streamVars

InitGenerate ==
    /\ store = <<>>
    /\ relevance \in [ChunkIdsIn(GenerateFiles) -> GenerateScores]
    /\ DetectIdle
    /\ CallIdle
    /\ ApplyIdle
    /\ StreamIdle

NextGenerate ==
    \/ GenerateUpload
    \/ GenerateDelete
    \/ Generate
    \/ Return

SpecGenerate == InitGenerate /\ [][NextGenerate]_vars

\* srcs holds one citation for every (file, page) of docs and nothing else,
\* and no two citations of the same (file, page)
CitesExactly(srcs, docs) ==
    /\ \A i \in 1..Len(docs) : \E n \in 1..Len(srcs) :
          <<srcs[n].source_file, srcs[n].page_number>> = FilePage(docs[i])
    /\ \A n \in 1..Len(srcs) : \E i \in 1..Len(docs) :
          <<srcs[n].source_file, srcs[n].page_number>> = FilePage(docs[i])
    /\ \A n, m \in 1..Len(srcs) :
          (srcs[n].source_file = srcs[m].source_file
              /\ srcs[n].page_number = srcs[m].page_number) => n = m

\* evid lists the chunks docs, one entry each, in the same order
ListsInOrder(evid, docs) ==
    /\ Len(evid) = Len(docs)
    /\ \A i \in 1..Len(docs) :
          /\ evid[i].content = docs[i].page_content
          /\ evid[i].metadata.chunk_id = docs[i].chunk_id

\* C24: generate_response either returns a result whose evidence lists every
\* retrieved chunk in retrieval order, whose num_sources is the number of
\* evidence entries and whose sources are the deduplicated citations of
\* those chunks, or, when the model fails, raises the failure and returns
\* nothing.
C24_OneShotResult ==
    applied = "generate_response" =>
        IF args.model.ok
        THEN /\ result.raised = None
             /\ ~result.value.is_none
             /\ result.value.value.answer = args.model.text
             /\ ListsInOrder(result.value.value.evidence, returned)
             /\ result.value.value.num_sources = Len(result.value.value.evidence)
             /\ CitesExactly(result.value.value.sources, returned)
        ELSE /\ result.raised = Some(args.model.text)
             /\ result.value = None

\* an answer grounded on two chunks of one page: two evidence entries, one
\* citation
C24_Witness ==
    /\ applied = "generate_response"
    /\ args.model.ok
    /\ Len(returned) >= 2
    /\ Len(result.value.value.evidence) = Len(returned)
    /\ Len(result.value.value.sources) < Len(returned)

C24_ModelFails ==
    /\ applied = "generate_response"
    /\ ~args.model.ok
    /\ returned # <<>>
    /\ result.value = None

\* ---------------------------------------------------------------------------
\* Several generators of generate_response_stream on one RAGChain
\* ---------------------------------------------------------------------------

\* the two calls whose pulls are interleaved
StreamIds == {1, 2}

MaxStreamDeltas == 1

TwoStreamSelectors == { <<"A", "B">>, <<"B", "A">> }

TwoStreamQuestions == { <<"x">> }

TwoStreamDeltas == { <<"a">> }

TwoStreamErrors == { <<"e">> }

\* the frame of a generator that has not been resumed yet: its arguments are
\* bound, its body has not started.  index is the collection as it stood when
\* the body retrieved.
NewGenerator(question, selector) ==
    [ pc |-> "created", question |-> question, course_id |-> selector,
      index |-> <<>>, documents |-> <<>>, sources |-> <<>>, evidence |-> <<>>,
      outputs |-> <<>>, error |-> None, emitted |-> <<>> ]

\* sources and evidence read from the frame of the generator made last
SourcesOf_shared(frames, g) == frames[Len(frames)].sources

\* the generator's own local variable sources
SourcesOf(frames, g) == frames[g].sources

EvidenceOf(frames, g) == frames[g].evidence

Emit(frame, event) == [frame EXCEPT !.emitted = Append(@, event)]

\* generate_response_stream(question, course_id) is called: a generator is made
CallStream ==
    /\ applied = "none"
    /\ Len(generators) < Cardinality(StreamIds)
    /\ \E question \in TwoStreamQuestions, selector \in TwoStreamSelectors :
          generators' = Append(generators, NewGenerator(question, selector))
    /\ UNCHANGED <<pc, documents, sources, evidence, events, llm_invoked, deltas,
                   llm_error, full_response, ui_sources, ui_evidence, messages>>
    /\ UNCHANGED <<store, relevance>>
    /\ UNCHANGED detectVars
    /\ UNCHANGED callVars
    /\ UNCHANGED applyVars

\* what a resumption leaves alone
OnlyGenerators ==
    /\ UNCHANGED <<pc, documents, sources, evidence, events, llm_invoked, deltas,
                   llm_error, full_response, ui_sources, ui_evidence, messages>>
    /\ UNCHANGED <<store, relevance>>
    /\ UNCHANGED detectVars
    /\ UNCHANGED callVars
    /\ UNCHANGED applyVars

\* first next(): retrieval, citations, evidence, and the first event
ResumeFirst ==
    /\ applied = "none"
    /\ \E g \in 1..Len(generators) :
        /\ generators[g].pc = "created"
        /\ \E courses_ok \in BOOLEAN, search_ok \in BOOLEAN :
            \E docs \in retrieve(store, relevance, generators[g].question,
                                  generators[g].course_id, TOP_K_RESULTS,
                                  courses_ok, search_ok) :
                LET started == [generators[g] EXCEPT
                                  !.pc = "yielded_sources",
                                  !.index = store,
                                  !.documents = docs,
                                  !.sources = get_source_citations(docs),
                                  !.evidence = Evidence(docs)]
                IN  generators' = [generators EXCEPT ![g] =
                        Emit(started, FirstEvent(started.sources, started.evidence,
                                                 Len(docs)))]
    /\ OnlyGenerators

\* a later next() on which the model produces a text delta
ResumeDelta ==
    /\ applied = "none"
    /\ \E g \in 1..Len(generators), chunk \in TwoStreamDeltas :
        /\ generators[g].pc \in {"yielded_sources", "streaming"}
        /\ Len(generators[g].outputs) < MaxStreamDeltas
        /\ generators' = [generators EXCEPT ![g] =
              Emit([@ EXCEPT !.pc = "streaming", !.outputs = Append(@, chunk)],
                   TextEvent(chunk))]
    /\ OnlyGenerators

\* a later next() on which the model's stream ends
ResumeDone ==
    /\ applied = "none"
    /\ \E g \in 1..Len(generators) :
        /\ generators[g].pc \in {"yielded_sources", "streaming"}
        /\ generators' = [generators EXCEPT ![g] =
              Emit([@ EXCEPT !.pc = "yielded_done"],
                   FinalEvent(SourcesOf(generators, g), EvidenceOf(generators, g)))]
    /\ OnlyGenerators

\* a later next() on which the model raises
ResumeError ==
    /\ applied = "none"
    /\ \E g \in 1..Len(generators), e \in TwoStreamErrors :
        /\ generators[g].pc \in {"yielded_sources", "streaming"}
        /\ generators' = [generators EXCEPT ![g] =
              Emit([@ EXCEPT !.pc = "yielded_done", !.error = Some(e)],
                   ErrorEvent(e, SourcesOf(generators, g), EvidenceOf(generators, g)))]
    /\ OnlyGenerators

\* the next() after the terminal event: the generator returns
ResumeStop ==
    /\ applied = "none"
    /\ \E g \in 1..Len(generators) :
        /\ generators[g].pc = "yielded_done"
        /\ generators' = [generators EXCEPT ![g].pc = "exhausted"]
    /\ OnlyGenerators

InitTwoStreams ==
    /\ store = <<>>
    /\ relevance = [id \in ChunkIdsIn(StreamFiles) |-> SIMILARITY_THRESHOLD]
    /\ DetectIdle
    /\ CallIdle
    /\ ApplyIdle
    /\ StreamIdle

NextTwoStreams ==
    \/ StreamUpload
    \/ Return
    \/ CallStream
    \/ ResumeFirst
    \/ ResumeDelta
    \/ ResumeDone
    \/ ResumeError
    \/ ResumeStop

SpecTwoStreams == InitTwoStreams /\ [][NextTwoStreams]_vars

\* the chunks a call alone may retrieve for (question, selector) on index
RetrievableAlone(frame) ==
    UNION { retrieve(frame.index, relevance, frame.question, frame.course_id,
                     TOP_K_RESULTS, courses_ok, search_ok) :
              courses_ok \in BOOLEAN, search_ok \in BOOLEAN }

\* the events a generator running alone yields for the chunks it retrieved
\* and the deltas, end or failure of the model
EventsAlone(frame) ==
    IF frame.pc = "created" THEN <<>>
    ELSE LET cites == get_source_citations(frame.documents)
             evid == Evidence(frame.documents)
             texts == [n \in 1..Len(frame.outputs) |-> TextEvent(frame.outputs[n])]
             last == IF frame.pc \notin {"yielded_done", "exhausted"} THEN <<>>
                     ELSE IF frame.error = None THEN <<FinalEvent(cites, evid)>>
                     ELSE <<ErrorEvent(frame.error.value, cites, evid)>>
         IN  <<FirstEvent(cites, evid, Len(frame.documents))>> \o texts \o last

\* C25: generation calls on one RAGChain share no mutable state: however the
\* pulls of two streams are interleaved, each stream yields exactly the
\* events it yields when run alone on its question, scope and index snapshot.
C25_StreamsIndependent ==
    \A g \in 1..Len(generators) :
        /\ generators[g].emitted = EventsAlone(generators[g])
        /\ generators[g].pc # "created" =>
              generators[g].documents \in RetrievableAlone(generators[g])

\* two streams with different sources, both finished, the one that began
\* second having finished first
C25_Witness ==
    /\ Len(generators) = 2
    /\ generators[1].pc = "exhausted"
    /\ generators[2].pc = "exhausted"
    /\ generators[1].sources # generators[2].sources
    /\ generators[1].emitted # generators[2].emitted
    /\ generators[1].outputs # <<>>
    /\ generators[2].error # None

\* ---------------------------------------------------------------------------
\* An upload and the other courses
\* ---------------------------------------------------------------------------

ChunksOfCourse(coll, course) ==
    SelectSeq(coll, LAMBDA doc : doc.course_id = course)

CoursesIn(coll) == {coll[i].course_id : i \in 1..Len(coll)}

\* the course the accepted upload of this state stored its chunks under
UploadedTo == sanitize_course_id(args.course_id)

\* the courses that an accepted upload did not name
OtherCourses == CoursesIn(args.before) \ {UploadedTo}

\* the upload brings a chunk id that the index holds under another course
BringsStoredContent ==
    \E i \in 1..Len(result.documents), j \in 1..Len(args.before) :
        /\ result.documents[i].chunk_id = args.before[j].chunk_id
        /\ args.before[j].course_id # UploadedTo

UnchangedCourse(course) ==
    /\ ChunksOfCourse(store, course) = ChunksOfCourse(args.before, course)
    /\ get_documents_by_course(store, course, TRUE)
          = get_documents_by_course(args.before, course, TRUE)

\* C26: an upload to a course B leaves every other course A as it was: the
\* chunks stored under A and the listing of A are the same before and after,
\* whatever the file holds, content already uploaded to A included.
C26_OtherCoursesUnchanged ==
    (applied = "upload" /\ result.processed) =>
        \A course \in OtherCourses : UnchangedCourse(course)

\* C26 for uploads that bring no content stored under another course
C26_ExceptStoredContent ==
    (applied = "upload" /\ result.processed /\ ~BringsStoredContent) =>
        \A course \in OtherCourses : UnchangedCourse(course)

\* x.txt, stored under one course, is uploaded to another: the first course
\* is left without its chunk
C26_CourseEmptied ==
    /\ applied = "upload"
    /\ result.processed
    /\ BringsStoredContent
    /\ \E course \in OtherCourses : ChunksOfCourse(store, course) = <<>>

\* ---------------------------------------------------------------------------
\* Retrieval with a stored course as the selector
\* ---------------------------------------------------------------------------

\* a retrieval whose selector is one of the courses get_all_courses returns
SelectsStoredCourse ==
    /\ op = "retrieve"
    /\ course_id \in Range(get_all_courses(store, TRUE))

ScopedToSelector ==
    /\ where_filter = course_id
    /\ \A i \in 1..Len(returned) : returned[i].course_id = course_id

\* C27: retrieval with a course c of get_all_courses as the explicit selector
\* is scoped to c and returns only chunks of c; no chunk is ever stored under
\* the reserved selector AUTO, for which no course filter is applied.
C27_StoredCourseScoped ==
    /\ SelectsStoredCourse => ScopedToSelector
    /\ \A i \in 1..Len(store) : store[i].course_id # AUTO_COURSE_ID

\* C27 for the stored courses other than AUTO
C27_ExceptReserved ==
    (SelectsStoredCourse /\ course_id # AUTO_COURSE_ID) => ScopedToSelector

\* a course named AUTO is stored and selected: the retrieval is not filtered
\* and returns a chunk of another course
C27_ReservedSelected ==
    /\ SelectsStoredCourse
    /\ course_id = AUTO_COURSE_ID
    /\ where_filter = NoFilter
    /\ \E i \in 1..Len(returned) : returned[i].course_id # AUTO_COURSE_ID

C27_StoredSelected ==
    /\ SelectsStoredCourse
    /\ course_id # AUTO_COURSE_ID
    /\ returned # <<>>
    /\ Len(returned) < Len(store)

\* ---------------------------------------------------------------------------
\* check_relevance and generation on the same index
\* ---------------------------------------------------------------------------

\* the lists retrieve_with_scores may return
retrieve_with_scores(coll, scores, q, selector, kk, score_threshold, courses_ok, search_ok) ==
    { FilterByThreshold(pairs, score_threshold) :
        pairs \in similarity_search_with_scores(
                      coll, scores,
                      EffectiveCourse(coll, q, selector, courses_ok), kk, search_ok) }

\* what check_relevance may report on the present index when the index works
Preflight(question, selector) ==
    { check_relevance(results) :
        results \in retrieve_with_scores(store, relevance, question, selector,
                                         TOP_K_RESULTS, SIMILARITY_THRESHOLD,
                                         TRUE, TRUE) }

NothingRelevant(question, selector) ==
    \A report \in Preflight(question, selector) : ~report.has_relevant_docs

AnsweredWithoutDocuments ==
    /\ result.prompt.context = NoDocumentsText
    /\ result.value.value.sources = <<>>
    /\ result.value.value.evidence = <<>>

\* C28: when check_relevance reports no relevant document for a question and
\* selector, generation on the same index uses the "No relevant documents
\* found." context and returns no sources and no evidence; no chunk scored
\* below the similarity threshold is given to the model or shown as evidence.
C28_PreflightAgrees ==
    (applied = "generate_response" /\ args.model.ok) =>
        /\ NothingRelevant(args.question, args.course_id) => AnsweredWithoutDocuments
        /\ \A i \in 1..Len(returned) :
              relevance[returned[i].chunk_id] >= SIMILARITY_THRESHOLD

\* what holds of generation: the sentinel context, no sources and no evidence
\* exactly when retrieve returned no chunk
C28_SentinelWhenNothingRetrieved ==
    (applied = "generate_response" /\ args.model.ok) =>
        (returned = <<>> <=> AnsweredWithoutDocuments)

\* check_relevance reports nothing relevant, yet the answer is generated from
\* a chunk scored below the threshold and shows it as evidence
C28_IrrelevantChunkUsed ==
    /\ applied = "generate_response"
    /\ args.model.ok
    /\ NothingRelevant(args.question, args.course_id)
    /\ result.value.value.evidence # <<>>
    /\ result.prompt.context # NoDocumentsText
    /\ \E i \in 1..Len(returned) :
          relevance[returned[i].chunk_id] < SIMILARITY_THRESHOLD

\* ---------------------------------------------------------------------------
\* One retrieval per stream
\* ---------------------------------------------------------------------------

\* some citation of srcs is for the file and page of the evidence entry
HasCitation(entry, srcs) ==
    \E n \in 1..Len(srcs) :
        /\ srcs[n].source_file = entry.metadata.source_file
        /\ srcs[n].page_number = entry.metadata.page_number

\* C29: a stream retrieves once, before its first event: the terminal event,
\* normal or error, carries the sources and evidence of the first event even
\* when uploads or deletions change the index between the pulls, and every
\* evidence chunk has a citation in sources for its (source_file, page_number).
C29_RetrievedOnce ==
    Len(events) >= 1 =>
        /\ events[1].evidence.value = Evidence(documents)
        /\ events[1].sources.value = sources
        /\ events[1].evidence.value = evidence
        /\ \A n \in 2..Len(events) :
              events[n].done =>
                  /\ events[n].sources = events[1].sources
                  /\ events[n].evidence = events[1].evidence
        /\ \A n \in 1..Len(events) :
              ~events[n].evidence.is_none =>
                  \A i \in 1..Len(events[n].evidence.value) :
                      HasCitation(events[n].evidence.value[i], events[n].sources.value)

\* the file the stream retrieved from was deleted before the model raised:
\* the error event still carries the chunks of the first event
C29_Witness ==
    /\ Len(events) >= 2
    /\ events[Len(events)].done
    /\ llm_error # None
    /\ events[Len(events)].evidence.value # <<>>
    /\ store = <<>>

\* the same with an upload between the pulls and a normal end
C29_UploadBetweenPulls ==
    /\ Len(events) >= 2
    /\ events[Len(events)].done
    /\ llm_error = None
    /\ events[1].evidence.value = <<>>
    /\ store # <<>>
    /\ \E docs \in retrieve(store, relevance, <<"x">>, AUTO_COURSE_ID,
                             TOP_K_RESULTS, TRUE, TRUE) : docs # <<>>

\* ---------------------------------------------------------------------------
\* The chat session of render_main_chat
\* ---------------------------------------------------------------------------

MaxMessages == 4

ChatPrompts == { <<"x">>, <<"a", "b">> }

\* the text deltas of one answer
ChatOutputs == { <<>>, << <<"a">>, <<"b", "c">> >> }

NoDocsMessage ==
    << "N", "o", Space, "d", "o", "c", "u", "m", "e", "n",
       "t", "s", Space, "h", "a", "v", "e", Space, "b", "e",
       "e", "n", Space, "u", "p", "l", "o", "a", "d", "e",
       "d", Space, "y", "e", "t", "." >>

\* f"... Error generating response: {str(e)}"
ChatErrorMessage(e) == <<"!", ":", Space>> \o e

UserMessage(prompt) == [role |-> "user", content |-> prompt]

\* chat_history built from all the messages, the question just appended too
ChatHistory_with_question(msgs) ==
    [i \in 1..Len(msgs) |-> [role |-> msgs[i].role, content |-> msgs[i].content]]

\* chat_history: role and content of st.session_state.messages[:-1]
ChatHistory(msgs) ==
    [i \in 1..(Len(msgs) - 1) |-> [role |-> msgs[i].role, content |-> msgs[i].content]]

\* the events of a generator run to its end
StreamedEvents(question, selector, docs, outputs, error) ==
    EventsAlone([NewGenerator(question, selector) EXCEPT
                    !.pc = "exhausted", !.documents = docs,
                    !.outputs = outputs, !.error = error])

\* the loop over the events: sources and evidence are those of the last
\* event that has them, full_response joins the chunks
LastWithSources(evts) ==
    LET carrying == {n \in 1..Len(evts) : ~evts[n].sources.is_none}
    IN  IF carrying = {} THEN 0 ELSE Greatest(carrying)

StreamedMessage(evts) ==
    LET n == LastWithSources(evts)
    IN  [ role |-> "assistant",
          content |-> Concat(Chunks(evts)),
          sources |-> IF n = 0 THEN None ELSE evts[n].sources,
          evidence |-> IF n = 0 THEN None ELSE evts[n].evidence ]

\* the ways the generator may run: to its end, or raising text out of the loop
RunsOf(coll, question, selector) ==
    { [raised |-> None, docs |-> docs, outputs |-> outputs, error |-> error] :
        docs \in UNION { retrieve(coll, relevance, question, selector,
                                  TOP_K_RESULTS, courses_ok, search_ok) :
                            courses_ok \in BOOLEAN, search_ok \in BOOLEAN },
        outputs \in ChatOutputs,
        error \in {None} \cup {Some(e) : e \in TwoStreamErrors} }
    \cup { [raised |-> Some(e), docs |-> <<>>, outputs |-> <<>>, error |-> None] :
            e \in TwoStreamErrors }

\* the body of "if prompt := st.chat_input(...)" for one submitted question
SubmitQuestion ==
    /\ op = "none"
    /\ applied = "none"
    /\ Len(messages) + 2 <= MaxMessages
    /\ \E prompt \in ChatPrompts, stats_ok \in BOOLEAN :
        LET asked == Append(messages, UserMessage(prompt))
            total_chunks == IF stats_ok THEN Len(store) ELSE 0
        IN  IF total_chunks = 0
            THEN /\ messages' = Append(asked, [role |-> "assistant",
                                               content |-> NoDocsMessage])
                 /\ args' = [ prompt |-> prompt, before |-> messages,
                              chat_history |-> None ]
                 /\ result' = [ branch |-> "no_documents" ]
            ELSE \E run \in RunsOf(store, prompt, AUTO_COURSE_ID) :
                 /\ args' = [ prompt |-> prompt, before |-> messages,
                              chat_history |-> Some(ChatHistory(asked)) ]
                 /\ IF run.raised = None
                    THEN /\ messages' = Append(asked,
                                StreamedMessage(StreamedEvents(
                                    prompt, AUTO_COURSE_ID, run.docs,
                                    run.outputs, run.error)))
                         /\ result' = [ branch |-> "streamed" ]
                    ELSE /\ messages' = Append(asked,
                                [role |-> "assistant",
                                 content |-> ChatErrorMessage(run.raised.value)])
                         /\ result' = [ branch |-> "failed" ]
    /\ applied' = "ask"
    /\ UNCHANGED <<pc, documents, sources, evidence, events, llm_invoked, deltas,
                   llm_error, full_response, ui_sources, ui_evidence, generators>>
    /\ UNCHANGED <<store, relevance>>
    /\ UNCHANGED detectVars
    /\ UNCHANGED callVars

\* the Reset Conversation button
ResetConversation ==
    /\ op = "none"
    /\ applied = "none"
    /\ messages' = <<>>
    /\ applied' = "reset"
    /\ args' = [ before |-> messages ]
    /\ result' = <<>>
    /\ UNCHANGED <<pc, documents, sources, evidence, events, llm_invoked, deltas,
                   llm_error, full_response, ui_sources, ui_evidence, generators>>
    /\ UNCHANGED <<store, relevance>>
    /\ UNCHANGED detectVars
    /\ UNCHANGED callVars

NextChat ==
    \/ StreamUpload
    \/ SubmitQuestion
    \/ ResetConversation
    \/ Return

SpecChat == InitTwoStreams /\ [][NextChat]_vars

Alternates(msgs) ==
    /\ Len(msgs) % 2 = 0
    /\ \A i \in 1..Len(msgs) :
          msgs[i].role = IF i % 2 = 1 THEN "user" ELSE "assistant"

\* C30: every submitted question appends exactly one user message and then
\* exactly one assistant message, whichever of the streamed answer, the
\* no-documents notice or the error text it is; after any questions and
\* resets the message list has even length and alternates user, assistant;
\* the history given to the generator is the messages before the question.
C30_ChatAlternates ==
    /\ Alternates(messages)
    /\ applied = "ask" =>
          /\ Len(messages) = Len(args.before) + 2
          /\ SubSeq(messages, 1, Len(args.before)) = args.before
          /\ messages[Len(args.before) + 1] = UserMessage(args.prompt)
          /\ messages[Len(messages)].role = "assistant"
          /\ result.branch = "no_documents" =>
                messages[Len(messages)].content = NoDocsMessage
          /\ result.branch # "no_documents" =>
                /\ Len(args.chat_history.value) = Len(args.before)
                /\ \A i \in 1..Len(args.before) :
                      /\ args.chat_history.value[i].role = args.before[i].role
                      /\ args.chat_history.value[i].content = args.before[i].content
    /\ applied = "reset" => messages = <<>>

\* a second question, answered from the documents after a first one that met
\* an empty index
C30_Witness ==
    /\ applied = "ask"
    /\ result.branch = "streamed"
    /\ Len(messages) = 4
    /\ messages[2].content = NoDocsMessage
    /\ messages[4].content # <<>>
    /\ Len(args.chat_history.value) = 2
    /\ args.prompt = args.before[1].content

C30_Failed ==
    /\ applied = "ask"
    /\ result.branch = "failed"
    /\ Len(messages) = 2

=============================================================================
